---- MODULE Spec2Model ----
(***************************************************************************)
(* A model of src/src/mpirshim.c: the MPIR-to-PMIx shim.  The driver       *)
(* thread runs MPIR_Shim_common.  The PMIx library calls the registration- *)
(* completion callback and the five event handlers from its progress       *)
(* thread, one callback at a time, concurrently with the driver.  A signal *)
(* handler and the atexit handler shut the tool down.  The PMIx library,   *)
(* the launcher and the application are the environment: every PMIx call   *)
(* returns one of the outcomes the code distinguishes.                     *)
(*                                                                         *)
(* Granularity.  The driver's steps are cut where it reads or writes what *)
(* a callback writes: around the predicate of wait_for_condition and       *)
(* pthread_cond_wait, between PMIx_tool_init and the init count, between   *)
(* PMIx_tool_finalize and the init count, between the reads of the         *)
(* registration slots, and at every record of the proctable.  A terminate  *)
(* handler is three steps: its loop over info[], the marking of the        *)
(* launcher as terminated, and the posting of the latches.                 *)
(* signal_handler, pmix_fatal_error, exit and _exit end the process: each  *)
(* is one step that includes the atexit handler where exit runs it, and    *)
(* the memory of a process that has ended is not kept.                     *)
(***************************************************************************)
EXTENDS Integers, Sequences, FiniteSets, TLC

(* ---- bounds of the model ---- *)
MaxExitCode == 2        \* a job ends with code 0 or with code MaxExitCode
MaxProcs == 3           \* a proctable response holds 1..MaxProcs records
MaxInfo == 1            \* an event carries at most MaxInfo info items
MaxLost == 1            \* LOST_CONNECTION_TO_SERVER events delivered per run
MaxItems == 3           \* a LAUNCH_COMPLETE event of any server holds up to
                        \* MaxItems info items
MaxCalls == 3           \* finalize_as_tool calls made in sequence

(* ---- program constants ---- *)
MPIR_NULL == 0
MPIR_DEBUG_SPAWNED == 1
MPIR_DEBUG_ABORTING == 2
STATUS_OK == 0
STATUS_FAIL == 1
NO_CB_ID == -1
PMIX_SUCCESS == "PMIX_SUCCESS"
PMIX_ERROR == "PMIX_ERROR"
PMIX_READY_FOR_DEBUG == "PMIX_READY_FOR_DEBUG"

Modes == {"DYNAMIC", "PROXY", "NONPROXY", "ATTACH"}
Latches == {"registration", "ready_for_debug", "launch_complete", "launch_term"}
Handlers == {"default", "launcher_complete", "launcher_ready",
             "launcher_terminate", "application_terminate"}
Callbacks == Handlers \cup {"registration_complete"}
ExitCodes == {0, MaxExitCode}
NullString == <<>>       \* a NULL char pointer

VARIABLES
    (* driver thread: MPIR_Shim_common and the functions it calls *)
    pc,                 \* position of the driver thread
    wait_cond,          \* latch of the wait_for_condition call in progress
    wait_ret,           \* where the driver continues after that wait
    reg,                \* handler whose register_* function is running
    retval,             \* value returned by MPIR_Shim_common
    proc_info,          \* the proctable query response being materialised
    i,                  \* loop index of pmix_proc_table_to_mpir
    (* globals of mpirshim.c *)
    mpir_mode, connect_pid,
    pmix_initialized, session_count,
    app_terminated, app_exit_code, launcher_terminated, launcher_exit_code,
    callback_reg_id, callback_reg_status, cb_id,
    launcher_proc, application_proc,
    flag,               \* MPIR_Shim_Condition.flag of each latch
    mutex,              \* TRUE while the driver holds the latch's mutex
    MPIR_debug_state, MPIR_debug_abort_string,
    MPIR_proctable, MPIR_proctable_size,
    (* the progress thread of the PMIx library *)
    h_pc,               \* position of each callback ("idle": not running)
    h_ref,              \* handler_ref passed to registration_complete_handler
    (* the process *)
    exited, exit_status, signals_installed, atexit_installed,
    (* the PMIx library, the launcher and the application *)
    tool_inits,         \* successful PMIx_tool_init calls
    tool_finalizes,     \* PMIx_tool_finalize calls
    reg_queue,          \* registrations issued, completion not yet delivered
    registered,         \* handlers the library has registered
    next_ref,           \* next handler reference the library hands out
    launcher, launcher_rc, app, app_rc,
    events,             \* events emitted and not yet delivered to a handler
    n_lost,             \* LOST_CONNECTION_TO_SERVER events delivered
    (* history of the run, read by the properties only *)
    hist

drvVars == <<pc, wait_cond, wait_ret, reg, retval, proc_info, i>>
optVars == <<mpir_mode, connect_pid>>
cntVars == <<pmix_initialized, session_count>>
termVars == <<app_terminated, app_exit_code, launcher_terminated, launcher_exit_code>>
regVars == <<callback_reg_id, callback_reg_status, cb_id>>
procVars == <<launcher_proc, application_proc>>
latchVars == <<flag, mutex>>
mpirVars == <<MPIR_debug_state, MPIR_debug_abort_string>>
tableVars == <<MPIR_proctable, MPIR_proctable_size>>
hVars == <<h_pc, h_ref>>
exitVars == <<exited, exit_status, signals_installed, atexit_installed>>
libVars == <<tool_inits, tool_finalizes, reg_queue, registered, next_ref>>
envVars == <<launcher, launcher_rc, app, app_rc, events, n_lost>>

vars == <<drvVars, optVars, cntVars, termVars, regVars, procVars, latchVars,
          mpirVars, tableVars, hVars, exitVars, libVars, envVars, hist>>

(* MPIR_proctable: NULL, or an array of MPIR_PROCDESC indexed from 0.  An entry *)
(* malloc returned and nothing wrote yet holds no defined value (written = FALSE). *)
NullTable == [null |-> TRUE, entries |-> <<>>]
Unwritten == [written |-> FALSE, pid |-> 0, host_name |-> NullString,
              executable_name |-> NullString]

(* History of the run kept for the properties; no action reads it. *)
HistInit ==
    [ex_by |-> "none",          \* what ended the process: signal, fatal, main, _exit
     normal_end |-> FALSE,      \* the driver returned through the end of the sequence
     late_wait |-> FALSE,       \* the latest wait_for_condition call tested its
                                \* condition after the launcher-terminate handler
                                \* had marked the launcher terminated
     lterm_fired |-> FALSE,     \* the launcher-terminate handler has marked the
                                \* launcher terminated
     early_death |-> FALSE,     \* the launcher ended with a non-zero code before
                                \* it reported READY_FOR_DEBUG
     wild_write |-> FALSE,      \* a store went outside the proctable array
     response |-> <<>>,         \* the response the proctable was built from
     atexit_ran |-> FALSE,      \* the process ended through exit, which ran
                                \* exit_handler
     exit_latches |-> {},       \* the latches whose flag was 0 when the default
                                \* handler called _exit
     bad_attach |-> FALSE,      \* the run was asked to attach to a pid <= 0
     breakpoints |-> 0,         \* returns of MPIR_Breakpoint
     app_releases |-> 0,        \* DEBUGGER_RELEASE notifications to the
                                \* application's ranks
     cbfunc |-> "idle",         \* the continuation of the handler in progress:
                                \* "NULL", "fn", or "idle" when none runs
     chain_broken |-> FALSE,    \* a handler given a continuation ended without
                                \* calling it exactly once
     materialisations |-> 0,    \* proctables allocated by pmix_proc_table_to_mpir
     frees |-> [table |-> 0, strings |-> 0, wild |-> 0],
                                \* what exit_handler gave to free: arrays, entries
                                \* whose strings were strdup'ed, entries that
                                \* were never written
     posted |-> {},             \* the latches posted, by post_condition or by
                                \* release_conditions, since they were last armed
     info |-> <<>>,             \* info[] of the LAUNCH_COMPLETE event that
                                \* launcher_complete_handler accepted
     event |-> "none",          \* the latest event given to default_event_handler,
                                \* where the specification keeps it
     fin_rc |-> "none",         \* rc of the finalize_as_tool call in progress in
                                \* the driver, once PMIx_tool_finalize returned
     ready_seen |-> FALSE,      \* READY_FOR_DEBUG was delivered to
                                \* launcher_ready_handler
     ids |-> [h \in Handlers |-> NO_CB_ID],
                                \* the handler_ref the completion callback of each
                                \* handler's registration was given
     req |-> <<>>]              \* <<mpir_mode_, pid_, argv[0]>> when the caller's
                                \* arguments are fixed in advance

(* The process is running: exit has not completed and _exit was not called. *)
Running == ~exited

(* The PMIx library calls back from its progress thread, one callback at a *)
(* time: the thread is free when no callback is running.                  *)
ProgressThreadFree == \A t \in Callbacks : h_pc[t] = "idle"

(* The driver thread is executing MPIR_Shim_common. *)
DriverRuns == Running /\ pc # "returned"

(* The state MPIR_Shim_common is entered in, with history h. *)
Entry(h0) ==
    /\ pc = "process_options"
    /\ wait_cond = "registration"
    /\ wait_ret = "none"
    /\ reg = "default"
    /\ retval = STATUS_OK
    /\ proc_info = <<>>
    /\ i = 0
    /\ mpir_mode = "DYNAMIC"
    /\ connect_pid = 0
    /\ pmix_initialized = 0
    /\ session_count = 0
    /\ app_terminated = 0
    /\ app_exit_code = 0
    /\ launcher_terminated = 0
    /\ launcher_exit_code = 0
    /\ callback_reg_id = 0
    /\ callback_reg_status = PMIX_SUCCESS
    /\ cb_id = [h \in Handlers |-> NO_CB_ID]
    /\ launcher_proc = ""
    /\ application_proc = ""
    /\ flag = [l \in Latches |-> 1]
    /\ mutex = [l \in Latches |-> FALSE]
    /\ MPIR_debug_state = MPIR_NULL
    /\ MPIR_debug_abort_string = NullString
    /\ MPIR_proctable = NullTable
    /\ MPIR_proctable_size = 0
    /\ h_pc = [t \in Callbacks |-> "idle"]
    /\ h_ref = 0
    /\ exited = FALSE
    /\ exit_status = 0
    /\ signals_installed = FALSE
    /\ atexit_installed = FALSE
    /\ tool_inits = 0
    /\ tool_finalizes = 0
    /\ reg_queue = <<>>
    /\ registered = {}
    /\ next_ref = 0
    /\ launcher = "none"
    /\ launcher_rc = 0
    /\ app = "none"
    /\ app_rc = 0
    /\ events = {}
    /\ n_lost = 0
    /\ hist = h0

Init == Entry(HistInit)

(* ------------------------------------------------------------------ *)
(* finalize_as_tool, exit_handler, exit, pmix_fatal_error              *)
(* ------------------------------------------------------------------ *)
(* The tool session as finalize_as_tool sees it: the init count and the *)
(* PMIx_tool_finalize calls made so far.                                *)
Tool == [cnt |-> pmix_initialized, fins |-> tool_finalizes]

(* A test that lets every call through. *)
finalize_always(cnt) == TRUE

(* if (0 < pmix_initialized) *)
finalize_needed(cnt) == 0 < cnt

(* --pmix_initialized; *)
finalize_count(cnt) == cnt - 1

(* One call of finalize_as_tool that runs from entry to return. *)
finalize_as_tool(s) ==
    IF finalize_needed(s.cnt)
    THEN [cnt |-> finalize_count(s.cnt), fins |-> s.fins + 1]
    ELSE s

(* k calls of finalize_as_tool in sequence. *)
RECURSIVE finalize_as_tool_times(_, _)
finalize_as_tool_times(k, s) ==
    IF k = 0 THEN s ELSE finalize_as_tool_times(k - 1, finalize_as_tool(s))

(* exit_handler: finalize_as_tool(), then the proctable's strings and the *)
(* array are freed.                                                       *)
exit_handler(s) == finalize_as_tool(s)

(* The frees of exit_handler given the proctable t: nothing when it is     *)
(* NULL, otherwise the two strings of each of its entries, then the array. *)
exit_handler_frees(t) ==
    IF t.null THEN [table |-> 0, strings |-> 0, wild |-> 0]
    ELSE [table |-> 1,
          strings |-> Cardinality({ n \in DOMAIN t.entries : t.entries[n].written }),
          wild |-> Cardinality({ n \in DOMAIN t.entries : ~t.entries[n].written })]

(* The process ends with the given status: its threads and its memory are *)
(* gone, and with them the library's record of its registrations and the  *)
(* events not yet delivered to it.  What remains is what the world outside *)
(* the process sees: the exit status, the PMIx_tool_init and               *)
(* PMIx_tool_finalize calls made, the launcher and the application.        *)
ProcessEnds(status, by, fins, ran, zero, cb) ==
    /\ exited' = TRUE
    /\ exit_status' = status
    /\ tool_finalizes' = fins
    /\ hist' = [HistInit EXCEPT !.ex_by = by, !.normal_end = hist.normal_end,
                                !.atexit_ran = ran, !.exit_latches = zero,
                                !.bad_attach = hist.bad_attach,
                                !.chain_broken = hist.chain_broken \/ cb = "fn",
                                !.materialisations = hist.materialisations,
                                !.frees = IF ran THEN exit_handler_frees(MPIR_proctable)
                                          ELSE HistInit.frees]
    /\ pc' = "exited"
    /\ wait_cond' = "registration" /\ wait_ret' = "none" /\ reg' = "default"
    /\ retval' = STATUS_OK /\ proc_info' = <<>> /\ i' = 0
    /\ mpir_mode' = "DYNAMIC" /\ connect_pid' = 0
    /\ pmix_initialized' = 0 /\ session_count' = 0
    /\ app_terminated' = 0 /\ app_exit_code' = 0
    /\ launcher_terminated' = 0 /\ launcher_exit_code' = 0
    /\ callback_reg_id' = 0 /\ callback_reg_status' = PMIX_SUCCESS
    /\ cb_id' = [h \in Handlers |-> NO_CB_ID]
    /\ launcher_proc' = "" /\ application_proc' = ""
    /\ flag' = [l \in Latches |-> 1] /\ mutex' = [l \in Latches |-> FALSE]
    /\ MPIR_debug_state' = MPIR_NULL /\ MPIR_debug_abort_string' = NullString
    /\ MPIR_proctable' = NullTable /\ MPIR_proctable_size' = 0
    /\ h_pc' = [t \in Callbacks |-> "idle"] /\ h_ref' = 0
    /\ signals_installed' = FALSE /\ atexit_installed' = FALSE
    /\ reg_queue' = <<>> /\ registered' = {} /\ next_ref' = 0
    /\ events' = {}
    /\ UNCHANGED <<tool_inits, launcher, launcher_rc, app, app_rc, n_lost>>

(* exit(status) called with the tool session in state s: the atexit handler *)
(* runs if it is installed and the process ends.                            *)
exit_within(cb, status, by, s) ==
    ProcessEnds(status, by,
                IF atexit_installed THEN exit_handler(s).fins ELSE s.fins,
                atexit_installed, {}, cb)

(* exit(status) called outside the event handlers. *)
exit(status, by, s) == exit_within("idle", status, by, s)

(* pmix_fatal_error called by a handler whose continuation is cb: *)
(* finalize_as_tool(), then exit(1).                              *)
pmix_fatal_error_within(cb) == exit_within(cb, 1, "fatal", finalize_as_tool(Tool))

(* pmix_fatal_error called by the driver. *)
pmix_fatal_error == pmix_fatal_error_within("idle")

(* A HUP, INT or TERM signal arrives: finalize_as_tool(), then exit(1). *)
signal_handler ==
    /\ Running /\ signals_installed
    /\ exit(1, "signal", finalize_as_tool(Tool))

(* ------------------------------------------------------------------ *)
(* process_options, setup_signal_handlers, atexit                      *)
(* ------------------------------------------------------------------ *)
(* argv[0] of the run arguments, as a string of characters. *)
Argv0s ==
    { <<"p","r","u","n">>, <<"/","p","r","u","n">>, <<"b","/","p","r","u","n">>,
      <<"m","p","i","r","u","n">>, <<"p","r","u","n","/","m">>,
      <<"x","p","r","u","n">>, <<"p","r","u">>, <<"p","r","u","n","/">> }
Pids == -1..1

(* strrchr(s, ch): index of the last ch in s, 0 when there is none. *)
RECURSIVE strrchr(_, _)
strrchr(s, ch) ==
    IF s = <<>> THEN 0
    ELSE IF s[Len(s)] = ch THEN Len(s)
    ELSE strrchr(SubSeq(s, 1, Len(s) - 1), ch)

(* A basename that keeps the directory prefix. *)
launcher_whole(argv0) == argv0

(* The basename process_options compares with "prun". *)
launcher_base(argv0) ==
    IF strrchr(argv0, "/") = 0 THEN argv0
    ELSE SubSeq(argv0, strrchr(argv0, "/") + 1, Len(argv0))

(* A process_options that accepts every request. *)
process_options_accepts(mode_, pid_) == STATUS_OK

(* The status process_options returns. *)
process_options_status(mode_, pid_) ==
    IF mode_ = "ATTACH" /\ 0 >= pid_ THEN STATUS_FAIL ELSE STATUS_OK

(* The value of mpir_mode when process_options returns. *)
process_options_mode(mode_, pid_, argv0, cur) ==
    IF mode_ = "DYNAMIC"
    THEN IF launcher_base(argv0) = <<"p","r","u","n">> THEN "NONPROXY" ELSE "PROXY"
    ELSE IF mode_ = "ATTACH" /\ 0 < pid_ THEN "ATTACH"
    ELSE cur

(* A failure return of MPIR_Shim_common. *)
ReturnFail == pc' = "returned" /\ retval' = STATUS_FAIL

process_options_call(mode_, pid_, argv0) ==
    /\ DriverRuns /\ pc = "process_options"
    /\ mpir_mode' = process_options_mode(mode_, pid_, argv0, mpir_mode)
    /\ connect_pid' = IF mode_ = "ATTACH" /\ 0 < pid_ THEN pid_ ELSE connect_pid
    /\ IF process_options_status(mode_, pid_) = STATUS_FAIL
       THEN ReturnFail
       ELSE pc' = "setup_signal_handlers" /\ UNCHANGED retval
    /\ hist' = [hist EXCEPT !.bad_attach = (mode_ = "ATTACH" /\ pid_ <= 0)]
    /\ UNCHANGED <<wait_cond, wait_ret, reg, proc_info, i, cntVars, termVars, regVars,
                   procVars, latchVars, mpirVars, tableVars, hVars, exitVars,
                   libVars, envVars>>

process_options ==
    \E mode_ \in Modes, pid_ \in Pids, argv0 \in Argv0s :
        process_options_call(mode_, pid_, argv0)

(* sigaction for HUP, INT, TERM; a failing sigaction returns STATUS_FAIL. *)
setup_signal_handlers ==
    /\ DriverRuns /\ pc = "setup_signal_handlers"
    /\ \E ok \in BOOLEAN :
          IF ok
          THEN pc' = "atexit" /\ signals_installed' = TRUE /\ UNCHANGED retval
          ELSE ReturnFail /\ UNCHANGED signals_installed
    /\ UNCHANGED <<wait_cond, wait_ret, reg, proc_info, i, optVars, cntVars, termVars,
                   regVars, procVars, latchVars, mpirVars, tableVars, hVars,
                   exited, exit_status, atexit_installed, libVars, envVars, hist>>

(* atexit(exit_handler) *)
install_exit_handler ==
    /\ DriverRuns /\ pc = "atexit"
    /\ \E ok \in BOOLEAN :
          IF ok
          THEN pc' = "PMIx_tool_init" /\ atexit_installed' = TRUE /\ UNCHANGED retval
          ELSE ReturnFail /\ UNCHANGED atexit_installed
    /\ UNCHANGED <<wait_cond, wait_ret, reg, proc_info, i, optVars, cntVars, termVars,
                   regVars, procVars, latchVars, mpirVars, tableVars, hVars,
                   exited, exit_status, signals_installed, libVars, envVars, hist>>

(* ------------------------------------------------------------------ *)
(* initialize_as_tool                                                  *)
(* ------------------------------------------------------------------ *)
(* session_count after the attribute list is built. *)
init_session_count(mode, cur) ==
    IF mode = "PROXY" THEN cur ELSE 1

(* pmix_initialized += 1; *)
init_count(cnt) == cnt + 1

(* Attributes built, then PMIx_tool_init. *)
initialize_as_tool ==
    /\ DriverRuns /\ pc = "PMIx_tool_init"
    /\ session_count' = init_session_count(mpir_mode, session_count)
    /\ \E rc \in {PMIX_SUCCESS, PMIX_ERROR} :
          IF rc # PMIX_SUCCESS
          THEN ReturnFail /\ UNCHANGED tool_inits
          ELSE /\ tool_inits' = tool_inits + 1
               /\ pc' = IF mpir_mode = "ATTACH" THEN "query_launcher_namespace"
                        ELSE "init_count"
               /\ UNCHANGED retval
    /\ UNCHANGED <<wait_cond, wait_ret, reg, proc_info, i, optVars, pmix_initialized,
                   termVars, regVars, procVars, latchVars, mpirVars, tableVars, hVars,
                   exitVars, tool_finalizes, reg_queue, registered, next_ref,
                   envVars, hist>>

(* query_launcher_namespace: SERVER_NSPACE and SERVER_RANK from the keystore, *)
(* pmix_fatal_error when either is missing or the namespace is empty.         *)
query_launcher_namespace ==
    /\ DriverRuns /\ pc = "query_launcher_namespace"
    /\ \E ns \in {"", "launcher"}, ok \in BOOLEAN :
          IF ok /\ ns # ""
          THEN /\ launcher_proc' = ns
               /\ pc' = "init_count"
               /\ UNCHANGED <<wait_cond, wait_ret, reg, retval, proc_info, i, optVars,
                              cntVars, termVars, regVars, application_proc,
                              latchVars, mpirVars, tableVars, hVars, exitVars,
                              libVars, envVars, hist>>
          ELSE pmix_fatal_error

(* pmix_initialized += 1; return STATUS_OK; then register_default_event_handler *)
initialize_as_tool_count ==
    /\ DriverRuns /\ pc = "init_count"
    /\ pmix_initialized' = init_count(pmix_initialized)
    /\ pc' = "register"
    /\ reg' = "default"
    /\ UNCHANGED <<wait_cond, wait_ret, retval, proc_info, i, optVars, session_count,
                   termVars, regVars, procVars, latchVars, mpirVars, tableVars, hVars,
                   exitVars, libVars, envVars, hist>>

(* ------------------------------------------------------------------ *)
(* wait_for_condition, post_condition, release_conditions              *)
(* ------------------------------------------------------------------ *)
(* A loop condition that never waits. *)
wait_predicate_none(f, terminated) == FALSE

(* The loop condition without the test of launcher_terminated. *)
wait_predicate_flag_only(f, terminated) == 1 = f

(* The loop condition of wait_for_condition. *)
wait_predicate(f, terminated) == (1 = f) /\ (0 = terminated)

(* pthread_cond_broadcast on the latches ls: the driver, at position at, is *)
(* woken if it is blocked on one of them.                                  *)
Broadcast(ls, at) ==
    IF at = "wait_blocked" /\ wait_cond \in ls THEN "wait_woken" ELSE at

(* A return that leaves the flag as the post left it. *)
rearm_skipped(l, f) == f

(* wait_cond->flag = 1: the latch is armed for the next wait. *)
rearm(l, f) == [f EXCEPT ![l] = 1]

(* pthread_mutex_lock, on entry or on return from pthread_cond_wait, and the *)
(* evaluation of the loop condition.  When it is false the flag is set       *)
(* again, the mutex released and the wait returns.                           *)
wait_for_condition_test ==
    /\ DriverRuns /\ pc \in {"wait_enter", "wait_woken"}
    /\ ~mutex[wait_cond]
    /\ IF wait_predicate(flag[wait_cond], launcher_terminated)
       THEN /\ mutex' = [mutex EXCEPT ![wait_cond] = TRUE]
            /\ pc' = "wait_pre"
            /\ UNCHANGED flag
       ELSE /\ flag' = rearm(wait_cond, flag)
            /\ pc' = wait_ret
            /\ UNCHANGED mutex
    /\ hist' = [hist EXCEPT
                   !.late_wait = IF pc = "wait_enter" THEN hist.lterm_fired ELSE @,
                   !.posted = IF wait_predicate(flag[wait_cond], launcher_terminated)
                              THEN @ ELSE @ \ {wait_cond}]
    /\ UNCHANGED <<wait_cond, wait_ret, reg, retval, proc_info, i, optVars, cntVars,
                   termVars, regVars, procVars, mpirVars, tableVars, hVars,
                   exitVars, libVars, envVars>>

(* pthread_cond_wait: the mutex is released and the driver blocks. *)
wait_for_condition_block ==
    /\ DriverRuns /\ pc = "wait_pre"
    /\ mutex' = [mutex EXCEPT ![wait_cond] = FALSE]
    /\ pc' = "wait_blocked"
    /\ UNCHANGED <<wait_cond, wait_ret, reg, retval, proc_info, i, optVars, cntVars,
                   termVars, regVars, procVars, flag, mpirVars, tableVars, hVars,
                   exitVars, libVars, envVars, hist>>

(* POSIX allows pthread_cond_wait to return without a broadcast. *)
spurious_wakeup ==
    /\ DriverRuns /\ pc = "wait_blocked"
    /\ pc' = "wait_woken"
    /\ UNCHANGED <<wait_cond, wait_ret, reg, retval, proc_info, i, optVars, cntVars,
                   termVars, regVars, procVars, latchVars, mpirVars, tableVars, hVars,
                   exitVars, libVars, envVars, hist>>

(* A post that clears the flag of every latch. *)
post_condition_all(l, f) == [k \in DOMAIN f |-> 0]

(* post_condition given the flags f: lock, broadcast, clear the flag, unlock. *)
post_condition(l, f) == [f EXCEPT ![l] = 0]

(* A release_conditions that leaves a latch as it finds it. *)
release_skip(l, f) == f

(* One latch of release_conditions: the flag is cleared when it is set. *)
release_one(l, f) == IF 1 = f[l] THEN [f EXCEPT ![l] = 0] ELSE f

(* release_conditions visits the four latches in this order; no mutex is taken. *)
ReleaseOrder == <<"registration", "ready_for_debug", "launch_complete", "launch_term">>

RECURSIVE release_from(_, _)
release_from(n, f) ==
    IF n > Len(ReleaseOrder) THEN f
    ELSE release_from(n + 1, release_one(ReleaseOrder[n], f))

(* A release_conditions that returns at once. *)
release_nothing(f) == f

release_conditions(f) == release_from(1, f)

(* The latches on which release_conditions, given the flags f, broadcasts. *)
released(f) == { l \in Latches : 1 = f[l] }

(* ------------------------------------------------------------------ *)
(* register_*_handler                                                  *)
(* ------------------------------------------------------------------ *)
(* PMIx_Register_event_handler, then the call of wait_for_condition. *)
register_handler ==
    /\ DriverRuns /\ pc = "register"
    /\ reg_queue' = Append(reg_queue, reg)
    /\ pc' = "wait_enter"
    /\ wait_cond' = "registration"
    /\ wait_ret' = "register_status"
    /\ UNCHANGED <<reg, retval, proc_info, i, optVars, cntVars, termVars, regVars,
                   procVars, latchVars, mpirVars, tableVars, hVars, exitVars,
                   tool_inits, tool_finalizes, registered, next_ref, envVars, hist>>

(* if (PMIX_SUCCESS != callback_reg_status) return STATUS_FAIL; *)
register_handler_status ==
    /\ DriverRuns /\ pc = "register_status"
    /\ IF callback_reg_status # PMIX_SUCCESS
       THEN ReturnFail
       ELSE pc' = "register_id" /\ UNCHANGED retval
    /\ UNCHANGED <<wait_cond, wait_ret, reg, proc_info, i, optVars, cntVars, termVars,
                   regVars, procVars, latchVars, mpirVars, tableVars, hVars,
                   exitVars, libVars, envVars, hist>>

(* A driver that releases the application as soon as the launch-complete *)
(* handler is registered.                                                *)
after_register_releases(h, mode) ==
    CASE h = "default" ->
            IF mode # "ATTACH" THEN "spawn" ELSE "query_application_namespace"
      [] h = "launcher_terminate" -> "register"
      [] h = "launcher_ready" -> "release_launcher"
      [] h = "launcher_complete" -> "release_application"
      [] h = "application_terminate" -> "release_application"

(* A driver that spawns a launcher in every mode. *)
after_register_spawns(h, mode) ==
    CASE h = "default" -> "spawn"
      [] h = "launcher_terminate" -> "register"
      [] h = "launcher_ready" -> "release_launcher"
      [] h = "launcher_complete" -> "wait_enter"
      [] h = "application_terminate" -> "release_application"

(* Where MPIR_Shim_common continues after a register_* function returned. *)
after_register(h, mode) ==
    CASE h = "default" ->
            IF mode # "ATTACH" THEN "spawn" ELSE "query_application_namespace"
      [] h = "launcher_terminate" -> "register"
      [] h = "launcher_ready" -> "release_launcher"
      [] h = "launcher_complete" -> "wait_enter"
      [] h = "application_terminate" -> "release_application"

(* <handler>_cb_id = callback_reg_id; return STATUS_OK; after the launcher- *)
(* complete registration, the call of wait_for_condition(&ready_for_debug). *)
register_handler_id ==
    /\ DriverRuns /\ pc = "register_id"
    /\ cb_id' = [cb_id EXCEPT ![reg] = callback_reg_id]
    /\ pc' = after_register(reg, mpir_mode)
    /\ reg' = IF reg = "launcher_terminate" THEN "launcher_ready" ELSE reg
    /\ wait_cond' = IF reg = "launcher_complete" THEN "ready_for_debug" ELSE wait_cond
    /\ wait_ret' = IF reg = "launcher_complete" THEN "proctable_query" ELSE wait_ret
    /\ UNCHANGED <<retval, proc_info, i, optVars, cntVars, termVars, callback_reg_id,
                   callback_reg_status, procVars, latchVars, mpirVars, tableVars, hVars,
                   exitVars, libVars, envVars, hist>>

(* ------------------------------------------------------------------ *)
(* spawn_launcher_and_application, connect_to_server,                  *)
(* release_procs_in_namespace, query_application_namespace             *)
(* ------------------------------------------------------------------ *)
(* launcher_proc after a successful PMIx_Spawn. *)
spawn_launcher_proc(mode) == IF mode = "NONPROXY" THEN "launcher" ELSE ""

spawn_launcher_and_application ==
    /\ DriverRuns /\ pc = "spawn"
    /\ \E ok \in BOOLEAN :
          IF ok
          THEN /\ launcher' = "held"
               /\ launcher_proc' = spawn_launcher_proc(mpir_mode)
               /\ pc' = IF mpir_mode = "PROXY" THEN "connect_to_server" ELSE "register"
               /\ reg' = "launcher_terminate"
               /\ UNCHANGED retval
          ELSE /\ ReturnFail
               /\ launcher_proc' = ""
               /\ UNCHANGED <<launcher, reg>>
    /\ UNCHANGED <<wait_cond, wait_ret, proc_info, i, optVars, cntVars, termVars,
                   regVars, application_proc, latchVars, mpirVars, tableVars, hVars,
                   exitVars, libVars, launcher_rc, app, app_rc, events, n_lost,
                   hist>>

(* PROXY: PMIX_LOAD_PROCID(&launcher_proc, ...), then PMIx_tool_set_server. *)
connect_to_server ==
    /\ DriverRuns /\ pc = "connect_to_server"
    /\ launcher_proc' = "launcher"
    /\ \E ok \in BOOLEAN :
          IF ok
          THEN /\ session_count' = session_count + 1
               /\ pc' = "register"
               /\ UNCHANGED retval
          ELSE ReturnFail /\ UNCHANGED session_count
    /\ UNCHANGED <<wait_cond, wait_ret, reg, proc_info, i, optVars, pmix_initialized,
                   termVars, regVars, application_proc, latchVars, mpirVars, tableVars,
                   hVars, exitVars, libVars, envVars, hist>>

(* release_procs_in_namespace(launcher_proc.nspace, 0): a held launcher in the *)
(* target namespace goes on to launch the application.                        *)
release_launcher ==
    /\ DriverRuns /\ pc = "release_launcher"
    /\ \E ok \in BOOLEAN :
          IF ok
          THEN /\ launcher' = IF launcher = "held" /\ launcher_proc = "launcher"
                              THEN "released" ELSE launcher
               /\ pc' = "register"
               /\ reg' = "launcher_complete"
               /\ UNCHANGED retval
          ELSE ReturnFail /\ UNCHANGED <<launcher, reg>>
    /\ UNCHANGED <<wait_cond, wait_ret, proc_info, i, optVars, cntVars, termVars,
                   regVars, procVars, latchVars, mpirVars, tableVars, hVars,
                   exitVars, libVars, launcher_rc, app, app_rc, events, n_lost, hist>>

(* release_procs_in_namespace(application_proc.nspace, PMIX_RANK_WILDCARD), *)
(* then the call of wait_for_condition(&launch_term_cond).                  *)
release_application ==
    /\ DriverRuns /\ pc = "release_application"
    /\ \E ok \in BOOLEAN :
          IF ok
          THEN /\ app' = IF app = "held" /\ application_proc = "app"
                         THEN "running" ELSE app
               /\ pc' = "wait_enter"
               /\ wait_cond' = "launch_term"
               /\ wait_ret' = "finalize"
               /\ UNCHANGED retval
          ELSE ReturnFail /\ UNCHANGED <<app, wait_cond, wait_ret>>
    /\ hist' = [hist EXCEPT !.app_releases = @ + 1]
    /\ UNCHANGED <<reg, proc_info, i, optVars, cntVars, termVars, regVars, procVars,
                   latchVars, mpirVars, tableVars, hVars, exitVars, libVars,
                   launcher, launcher_rc, app_rc, events, n_lost>>

(* ATTACH: PMIx_Query_info(QUERY_NAMESPACES); a wrong-format answer fails too. *)
query_application_namespace ==
    /\ DriverRuns /\ pc = "query_application_namespace"
    /\ \E ok \in BOOLEAN :
          IF ok
          THEN /\ application_proc' = "app"
               /\ pc' = "proctable_query"
               /\ UNCHANGED retval
          ELSE ReturnFail /\ UNCHANGED application_proc
    /\ UNCHANGED <<wait_cond, wait_ret, reg, proc_info, i, optVars, cntVars, termVars,
                   regVars, launcher_proc, latchVars, mpirVars, tableVars, hVars,
                   exitVars, libVars, envVars, hist>>

(* ------------------------------------------------------------------ *)
(* pmix_proc_table_to_mpir                                             *)
(* ------------------------------------------------------------------ *)
(* Record k of a QUERY_PROC_TABLE response; its rank is the library's. *)
ProcInfo(k, r) ==
    [rank |-> r, pid |-> 100 + k, hostname |-> <<"host", k>>,
     executable_name |-> <<"exe", k>>]

(* The responses the code accepts: 1..MaxProcs records whose ranks, which *)
(* it does not validate, are any numbers below MaxProcs.  A data array of *)
(* size 0 has a NULL array in PMIx and is refused as malformed; malloc of *)
(* a table of one record or more is taken to succeed.                     *)
Responses ==
    UNION { { [k \in 1..n |-> ProcInfo(k, rs[k])] : rs \in [1..n -> 0..(MaxProcs - 1)] }
            : n \in 1..MaxProcs }

(* The response of a server that lists a job of MaxProcs processes in the *)
(* order of their ranks.                                                  *)
JobTable == { [k \in 1..MaxProcs |-> ProcInfo(k, k - 1)] }

(* MPIR_proctable[rank] = {pid, strdup(hostname), strdup(executable_name)} *)
proctable_store(entries, rec) ==
    [entries EXCEPT ![rec.rank] =
        [written |-> TRUE, pid |-> rec.pid, host_name |-> rec.hostname,
         executable_name |-> rec.executable_name]]

(* What the proctable query leaves alone unless it ends the process. *)
queryFrame == <<wait_cond, wait_ret, reg, i, optVars, cntVars, termVars, regVars,
                procVars, latchVars, mpirVars, tableVars, hVars, exitVars, libVars,
                envVars, hist>>

(* PMIx_Query_info(QUERY_PROC_TABLE) and the checks of the answer's format. *)
proc_table_query(replies) ==
    /\ DriverRuns /\ pc = "proctable_query"
    /\ \E answer \in {"error", "malformed", "table"} :
          CASE answer = "error" ->
                  /\ ReturnFail
                  /\ UNCHANGED <<proc_info, queryFrame>>
            [] answer = "malformed" ->
                  pmix_fatal_error
            [] answer = "table" ->
                  /\ \E r \in replies : proc_info' = r
                  /\ pc' = "proctable_malloc"
                  /\ UNCHANGED <<retval, queryFrame>>

(* The query in a run against a server that answers with the job's table. *)
pmix_proc_table_to_mpir_query == proc_table_query(JobTable)

(* MPIR_proctable_size = response_array->size;                              *)
(* MPIR_proctable = malloc(MPIR_proctable_size * sizeof(MPIR_PROCDESC));    *)
pmix_proc_table_to_mpir_malloc ==
    /\ DriverRuns /\ pc = "proctable_malloc"
    /\ MPIR_proctable_size' = Len(proc_info)
    /\ MPIR_proctable' =
          [null |-> FALSE,
           entries |-> [k \in 0..(Len(proc_info) - 1) |-> Unwritten]]
    /\ i' = 0
    /\ pc' = "proctable_loop"
    /\ hist' = [hist EXCEPT !.materialisations = @ + 1]
    /\ UNCHANGED <<wait_cond, wait_ret, reg, retval, proc_info, optVars, cntVars,
                   termVars, regVars, procVars, latchVars, mpirVars, hVars, exitVars,
                   libVars, envVars>>

(* One iteration of the loop over the records. *)
pmix_proc_table_to_mpir_store ==
    /\ DriverRuns /\ pc = "proctable_loop"
    /\ i < MPIR_proctable_size
    /\ IF proc_info[i + 1].rank \in DOMAIN MPIR_proctable.entries
       THEN /\ MPIR_proctable' =
                  [MPIR_proctable EXCEPT
                      !.entries = proctable_store(@, proc_info[i + 1])]
            /\ UNCHANGED hist
       ELSE /\ hist' = [hist EXCEPT !.wild_write = TRUE]
            /\ UNCHANGED MPIR_proctable
    /\ i' = i + 1
    /\ UNCHANGED <<pc, wait_cond, wait_ret, reg, retval, proc_info, optVars, cntVars,
                   termVars, regVars, procVars, latchVars, mpirVars,
                   MPIR_proctable_size, hVars, exitVars, libVars, envVars>>

(* A conversion that leaves MPIR_debug_state as it was at start-up. *)
unset_state == MPIR_NULL

(* The value stored in MPIR_debug_state after the loop. *)
spawned_state == MPIR_DEBUG_SPAWNED

(* MPIR_debug_state = MPIR_DEBUG_SPAWNED; PMIX_INFO_FREE(proctable_query_data) *)
pmix_proc_table_to_mpir_state ==
    /\ DriverRuns /\ pc = "proctable_loop"
    /\ ~(i < MPIR_proctable_size)
    /\ MPIR_debug_state' = spawned_state
    /\ proc_info' = <<>>
    /\ i' = 0
    /\ pc' = "MPIR_Breakpoint"
    /\ hist' = [hist EXCEPT !.response = proc_info]
    /\ UNCHANGED <<wait_cond, wait_ret, reg, retval, optVars, cntVars, termVars,
                   regVars, procVars, latchVars, MPIR_debug_abort_string, tableVars,
                   hVars, exitVars, libVars, envVars>>

(* MPIR_Breakpoint(), the return of pmix_proc_table_to_mpir and what follows it. *)
MPIR_Breakpoint ==
    /\ DriverRuns /\ pc = "MPIR_Breakpoint"
    /\ pc' = IF mpir_mode = "ATTACH" THEN "finalize"
             ELSE IF mpir_mode = "PROXY" THEN "register"
             ELSE "release_application"
    /\ reg' = IF mpir_mode = "PROXY" THEN "application_terminate" ELSE reg
    /\ hist' = [hist EXCEPT !.breakpoints = @ + 1]
    /\ UNCHANGED <<wait_cond, wait_ret, retval, proc_info, i, optVars, cntVars,
                   termVars, regVars, procVars, latchVars, mpirVars, tableVars, hVars,
                   exitVars, libVars, envVars>>

(* ------------------------------------------------------------------ *)
(* The end of MPIR_Shim_common                                         *)
(* ------------------------------------------------------------------ *)
(* finalize_as_tool on the driver thread: the test of the init count and, *)
(* when it is positive, PMIx_tool_finalize.                               *)
shim_finalize ==
    /\ DriverRuns /\ pc = "finalize"
    /\ IF finalize_needed(pmix_initialized)
       THEN /\ tool_finalizes' = tool_finalizes + 1 /\ pc' = "finalize_count"
            /\ \E rc \in {PMIX_SUCCESS, PMIX_ERROR} :
                  hist' = [hist EXCEPT !.fin_rc = rc]
       ELSE UNCHANGED <<tool_finalizes, hist>> /\ pc' = "return"
    /\ UNCHANGED <<wait_cond, wait_ret, reg, retval, proc_info, i, optVars, cntVars,
                   termVars, regVars, procVars, latchVars, mpirVars, tableVars, hVars,
                   exitVars, tool_inits, reg_queue, registered, next_ref, envVars>>

(* --pmix_initialized; whatever PMIx_tool_finalize returned. *)
shim_finalize_count ==
    /\ DriverRuns /\ pc = "finalize_count"
    /\ pmix_initialized' = finalize_count(pmix_initialized)
    /\ pc' = "return"
    /\ hist' = [hist EXCEPT !.fin_rc = "none"]
    /\ UNCHANGED <<wait_cond, wait_ret, reg, retval, proc_info, i, optVars,
                   session_count, termVars, regVars, procVars, latchVars, mpirVars,
                   tableVars, hVars, exitVars, libVars, envVars>>

(* The value MPIR_Shim_common returns at the end of the sequence. *)
shim_exit_code(mode, code) == IF mode = "ATTACH" THEN 0 ELSE code

(* return launcher_exit_code;  (return 0; when attaching) *)
shim_return ==
    /\ DriverRuns /\ pc = "return"
    /\ retval' = shim_exit_code(mpir_mode, launcher_exit_code)
    /\ pc' = "returned"
    /\ hist' = [hist EXCEPT !.normal_end = TRUE]
    /\ UNCHANGED <<wait_cond, wait_ret, reg, proc_info, i, optVars, cntVars, termVars,
                   regVars, procVars, latchVars, mpirVars, tableVars, hVars,
                   exitVars, libVars, envVars>>

(* The caller of MPIR_Shim_common ends the process with the value returned. *)
main_exit ==
    /\ Running /\ pc = "returned"
    /\ exit(retval, "main", Tool)

(* ------------------------------------------------------------------ *)
(* registration_complete_handler                                       *)
(* ------------------------------------------------------------------ *)
(* The library completes the oldest registration and calls the handler: *)
(* callback_reg_status = status;                                        *)
registration_complete_handler ==
    /\ Running /\ reg_queue # <<>> /\ ProgressThreadFree
    /\ \E status \in {PMIX_SUCCESS, PMIX_ERROR} :
          /\ callback_reg_status' = status
          /\ registered' = IF status = PMIX_SUCCESS
                           THEN registered \cup {Head(reg_queue)} ELSE registered
    /\ h_ref' = next_ref
    /\ reg_queue' = Tail(reg_queue)
    /\ next_ref' = next_ref + 1
    /\ h_pc' = [h_pc EXCEPT !["registration_complete"] = "id"]
    /\ hist' = [hist EXCEPT !.ids[Head(reg_queue)] = next_ref]
    /\ UNCHANGED <<drvVars, optVars, cntVars, termVars, callback_reg_id, cb_id,
                   procVars, latchVars, mpirVars, tableVars, exitVars,
                   tool_inits, tool_finalizes, envVars>>

(* callback_reg_id = handler_ref; *)
registration_complete_id ==
    /\ Running /\ h_pc["registration_complete"] = "id"
    /\ callback_reg_id' = h_ref
    /\ h_pc' = [h_pc EXCEPT !["registration_complete"] = "post"]
    /\ UNCHANGED <<drvVars, optVars, cntVars, termVars, callback_reg_status, cb_id,
                   procVars, latchVars, mpirVars, tableVars, h_ref, exitVars,
                   libVars, envVars, hist>>

(* post_condition(&registration_cond); the handler returns. *)
registration_complete_post ==
    /\ Running /\ h_pc["registration_complete"] = "post"
    /\ ~mutex["registration"]
    /\ flag' = post_condition("registration", flag)
    /\ pc' = Broadcast({"registration"}, pc)
    /\ h_pc' = [h_pc EXCEPT !["registration_complete"] = "idle"]
    /\ h_ref' = 0
    /\ hist' = [hist EXCEPT !.posted = @ \cup {"registration"}]
    /\ UNCHANGED <<wait_cond, wait_ret, reg, retval, proc_info, i, optVars, cntVars,
                   termVars, regVars, procVars, mutex, mpirVars, tableVars,
                   exitVars, libVars, envVars>>

(* ------------------------------------------------------------------ *)
(* The continuation of an event                                        *)
(* ------------------------------------------------------------------ *)
(* The cbfunc argument of a handler: NULL or a function. *)
Continuations == {"NULL", "fn"}

(* if (NULL != cbfunc) cbfunc(PMIX_EVENT_ACTION_COMPLETE, ...): the number *)
(* of calls made.                                                          *)
cbfunc_calls(cb) == IF "NULL" # cb THEN 1 ELSE 0

(* The handler given cb has run to its end, through the call of cbfunc. *)
handler_returns(cb, h0) ==
    [h0 EXCEPT !.cbfunc = "idle",
               !.chain_broken = @ \/ (cb = "fn" /\ cbfunc_calls(cb) # 1)]

(* ------------------------------------------------------------------ *)
(* launcher_ready_handler                                              *)
(* ------------------------------------------------------------------ *)
(* A READY_FOR_DEBUG event is delivered: callback_reg_status = status; *)
launcher_ready_handler ==
    /\ Running /\ "READY_FOR_DEBUG" \in events
    /\ "launcher_ready" \in registered /\ ProgressThreadFree
    /\ events' = events \ {"READY_FOR_DEBUG"}
    /\ callback_reg_status' = PMIX_READY_FOR_DEBUG
    /\ h_pc' = [h_pc EXCEPT !["launcher_ready"] = "post"]
    /\ \E cb \in Continuations :
          hist' = [hist EXCEPT !.ready_seen = TRUE, !.cbfunc = cb]
    /\ UNCHANGED <<drvVars, optVars, cntVars, termVars, callback_reg_id, cb_id,
                   procVars, latchVars, mpirVars, tableVars, h_ref, exitVars,
                   libVars, launcher, launcher_rc, app, app_rc, n_lost>>

(* post_condition(&ready_for_debug_cond); cbfunc(...); the handler returns. *)
launcher_ready_post ==
    /\ Running /\ h_pc["launcher_ready"] = "post"
    /\ ~mutex["ready_for_debug"]
    /\ flag' = post_condition("ready_for_debug", flag)
    /\ pc' = Broadcast({"ready_for_debug"}, pc)
    /\ hist' = handler_returns(hist.cbfunc,
                                [hist EXCEPT !.posted = @ \cup {"ready_for_debug"}])
    /\ h_pc' = [h_pc EXCEPT !["launcher_ready"] = "idle"]
    /\ UNCHANGED <<wait_cond, wait_ret, reg, retval, proc_info, i, optVars, cntVars,
                   termVars, regVars, procVars, mutex, mpirVars, tableVars, h_ref,
                   exitVars, libVars, envVars>>

(* ------------------------------------------------------------------ *)
(* launcher_complete_handler                                           *)
(* ------------------------------------------------------------------ *)
Item(k, v) == [key |-> k, val |-> v]

(* All sequences over S of length lo..hi. *)
SeqsOf(S, lo, hi) == UNION { [1..n -> S] : n \in lo..hi }

(* A scan that keeps the first NSPACE entry. *)
RECURSIVE first_nspace(_)
first_nspace(info) ==
    IF info = <<>> THEN ""
    ELSE IF info[1].key = "NSPACE" THEN info[1].val
    ELSE first_nspace(Tail(info))

(* The namespace the scan of info[] ends with: the last NSPACE entry's. *)
RECURSIVE last_nspace(_)
last_nspace(info) ==
    IF info = <<>> THEN ""
    ELSE IF info[Len(info)].key = "NSPACE" THEN info[Len(info)].val
    ELSE last_nspace(SubSeq(info, 1, Len(info) - 1))

(* LAUNCH_COMPLETE events of any server: up to MaxItems items, which may *)
(* name several namespaces.                                             *)
AnyCompleteInfos ==
    SeqsOf({Item("NSPACE", "app"), Item("NSPACE", "other"), Item("JOB_SIZE", "")},
           0, MaxItems)

(* LAUNCH_COMPLETE events: the application's namespace, if any is named. *)
CompleteInfos ==
    SeqsOf({Item("NSPACE", "app"), Item("JOB_SIZE", "")}, 0, MaxInfo)

(* A LAUNCH_COMPLETE event is delivered: the scan of info[], then           *)
(* pmix_fatal_error or PMIX_PROC_LOAD(&application_proc, nspace, WILDCARD). *)
launcher_complete_event(infos) ==
    /\ Running /\ "LAUNCH_COMPLETE" \in events
    /\ "launcher_complete" \in registered /\ ProgressThreadFree
    /\ \E info \in infos, cb \in Continuations :
          IF last_nspace(info) = ""
          THEN pmix_fatal_error_within(cb)
          ELSE /\ events' = events \ {"LAUNCH_COMPLETE"}
               /\ application_proc' = last_nspace(info)
               /\ h_pc' = [h_pc EXCEPT !["launcher_complete"] = "post"]
               /\ hist' = [hist EXCEPT !.cbfunc = cb, !.info = info]
               /\ UNCHANGED <<drvVars, optVars, cntVars, termVars, regVars,
                              launcher_proc, latchVars, mpirVars, tableVars, h_ref,
                              exitVars, libVars, launcher, launcher_rc, app, app_rc,
                              n_lost>>

(* The handler in a run whose launcher names the one application it started. *)
launcher_complete_handler == launcher_complete_event(CompleteInfos)

(* post_condition(&launch_complete_cond); cbfunc(...); the handler returns. *)
launcher_complete_post ==
    /\ Running /\ h_pc["launcher_complete"] = "post"
    /\ ~mutex["launch_complete"]
    /\ flag' = post_condition("launch_complete", flag)
    /\ pc' = Broadcast({"launch_complete"}, pc)
    /\ hist' = handler_returns(hist.cbfunc,
                                [hist EXCEPT !.posted = @ \cup {"launch_complete"}])
    /\ h_pc' = [h_pc EXCEPT !["launcher_complete"] = "idle"]
    /\ UNCHANGED <<wait_cond, wait_ret, reg, retval, proc_info, i, optVars, cntVars,
                   termVars, regVars, procVars, mutex, mpirVars, tableVars, h_ref,
                   exitVars, libVars, envVars>>

(* ------------------------------------------------------------------ *)
(* default_event_handler                                               *)
(* ------------------------------------------------------------------ *)
(* A handler that leaves the session count alone. *)
session_kept(count) == count

(* session_count = session_count - 1; *)
session_lost(count) == count - 1

(* The branch default_event_handler takes for an event and session count. *)
default_event_branch(status, count) ==
    IF status = "PMIX_ERR_LOST_CONNECTION_TO_SERVER"
    THEN IF 1 = count THEN "_exit" ELSE "decrement"
    ELSE "cbfunc"

(* An event no other handler takes is delivered.  LOST_CONNECTION with one  *)
(* session left: release_conditions(), then _exit(1) ends the process at    *)
(* once, no atexit handler runs.  LOST_CONNECTION otherwise: the count is   *)
(* decremented.  Any other event: cbfunc(...) only.                         *)
default_event_call(status, cb, kept) ==
    /\ Running /\ "default" \in registered /\ ProgressThreadFree
    /\ LET branch == default_event_branch(status, session_count)
           h0 == [hist EXCEPT !.event = IF kept THEN status ELSE @]
       IN CASE branch = "_exit" ->
                 /\ n_lost < MaxLost
                 /\ ProcessEnds(1, "_exit", tool_finalizes, FALSE,
                                { l \in Latches : 0 = release_conditions(flag)[l] },
                                cb)
            [] branch = "decrement" ->
                 /\ n_lost < MaxLost
                 /\ session_count' = session_lost(session_count)
                 /\ n_lost' = n_lost + 1
                 /\ hist' = handler_returns(cb, h0)
                 /\ UNCHANGED <<drvVars, optVars, pmix_initialized, termVars,
                                regVars, procVars, latchVars, mpirVars, tableVars,
                                hVars, exitVars, libVars, launcher, launcher_rc,
                                app, app_rc, events>>
            [] branch = "cbfunc" ->
                 /\ hist' = handler_returns(cb, h0)
                 /\ UNCHANGED <<drvVars, optVars, cntVars, termVars, regVars,
                                procVars, latchVars, mpirVars, tableVars, hVars,
                                exitVars, libVars, envVars>>

DefaultEvents == {"PMIX_ERR_LOST_CONNECTION_TO_SERVER", "PMIX_EVENT_OTHER"}

default_event_handler ==
    \E status \in DefaultEvents, cb \in Continuations :
        default_event_call(status, cb, FALSE)

(* The same delivery, with the event kept in the history. *)
default_event_kept ==
    \E status \in DefaultEvents, cb \in Continuations :
        default_event_call(status, cb, TRUE)

(* ------------------------------------------------------------------ *)
(* launcher_terminate_handler, application_terminate_handler           *)
(* ------------------------------------------------------------------ *)
(* printf's %d for a non-negative int. *)
Digits == <<"0", "1", "2", "3", "4", "5", "6", "7", "8", "9">>

RECURSIVE decimal(_)
decimal(n) ==
    IF n < 10 THEN <<Digits[n + 1]>>
    ELSE Append(decimal(n \div 10), Digits[(n % 10) + 1])

(* The string asprintf allocates for the format text followed by %d. *)
asprintf(text, n) == <<text>> \o decimal(n)

(* PMIX_CHECK_KEY(info, PMIX_EXIT_CODE) or PMIX_CHECK_KEY(info, PMIX_JOB_TERM_STATUS) *)
carries_code(item) == item.key \in {"EXIT_CODE", "JOB_TERM_STATUS"}

(* JOB_TERMINATED events of a job that ended with code c: the code under *)
(* either key, the affected process, in any order.                       *)
TermInfos(c) ==
    { info \in SeqsOf({Item("EXIT_CODE", c), Item("JOB_TERM_STATUS", c),
                       Item("EVENT_AFFECTED_PROC", 0)}, 1, MaxInfo) :
         \E n \in DOMAIN info : carries_code(info[n]) }

(* A test that lets every writer through. *)
abort_string_any(str) == TRUE

(* if (NULL == MPIR_debug_abort_string) *)
abort_string_unset(str) == NullString = str

(* The loop over info[] of a terminate handler from item n on.  s holds the *)
(* handler's exit-code variable, MPIR_debug_state and the abort string.     *)
RECURSIVE terminate_scan(_, _, _, _)
terminate_scan(info, n, text, s) ==
    IF n > Len(info) THEN s
    ELSE IF carries_code(info[n]) /\ info[n].val # 0
    THEN terminate_scan(info, n + 1, text,
            [code |-> info[n].val,
             state |-> MPIR_DEBUG_ABORTING,
             str |-> IF abort_string_unset(s.str) THEN asprintf(text, info[n].val)
                     ELSE s.str])
    ELSE IF carries_code(info[n])
    THEN terminate_scan(info, n + 1, text, [s EXCEPT !.code = info[n].val])
    ELSE terminate_scan(info, n + 1, text, s)

(* A JOB_TERMINATED event of the launcher is delivered: the loop over info[]. *)
launcher_terminate_handler ==
    /\ Running /\ "LAUNCHER_TERMINATED" \in events
    /\ "launcher_terminate" \in registered /\ ProgressThreadFree
    /\ events' = events \ {"LAUNCHER_TERMINATED"}
    /\ \E info \in TermInfos(launcher_rc) :
          LET s == terminate_scan(info, 1, "The launcher exited with return code ",
                                  [code |-> launcher_exit_code, state |-> MPIR_debug_state,
                                   str |-> MPIR_debug_abort_string])
          IN /\ launcher_exit_code' = s.code
             /\ MPIR_debug_state' = s.state
             /\ MPIR_debug_abort_string' = s.str
    /\ \E cb \in Continuations : hist' = [hist EXCEPT !.cbfunc = cb]
    /\ h_pc' = [h_pc EXCEPT !["launcher_terminate"] = "mark"]
    /\ UNCHANGED <<drvVars, optVars, cntVars, app_terminated, app_exit_code, launcher_terminated, regVars, procVars,
                   latchVars, tableVars, h_ref, exitVars, libVars, launcher,
                   launcher_rc, app, app_rc, n_lost>>

(* launcher_terminated = 1; *)
launcher_terminate_mark ==
    /\ Running /\ h_pc["launcher_terminate"] = "mark"
    /\ launcher_terminated' = 1
    /\ UNCHANGED app_terminated
    /\ h_pc' = [h_pc EXCEPT !["launcher_terminate"] = "post"]
    /\ hist' = [hist EXCEPT !.lterm_fired = TRUE]
    /\ UNCHANGED <<drvVars, optVars, cntVars, app_exit_code, launcher_exit_code,
                   regVars, procVars, latchVars, mpirVars, tableVars, h_ref,
                   exitVars, libVars, envVars>>

(* post_condition(&launch_term_cond); release_conditions(); cbfunc(...); *)
(* the handler returns.                                                  *)
launcher_terminate_post ==
    /\ Running /\ h_pc["launcher_terminate"] = "post"
    /\ ~mutex["launch_term"]
    /\ flag' = release_conditions(post_condition("launch_term", flag))
    /\ pc' = Broadcast({"launch_term"} \cup released(flag), pc)
    /\ hist' = handler_returns(hist.cbfunc,
                                [hist EXCEPT !.posted = @ \cup {"launch_term"} \cup released(flag)])
    /\ h_pc' = [h_pc EXCEPT !["launcher_terminate"] = "idle"]
    /\ UNCHANGED <<wait_cond, wait_ret, reg, retval, proc_info, i, optVars, cntVars,
                   termVars, regVars, procVars, mutex, mpirVars, tableVars, h_ref,
                   exitVars, libVars, envVars>>

(* A JOB_TERMINATED event of the application is delivered: the loop over info[]. *)
application_terminate_handler ==
    /\ Running /\ "APPLICATION_TERMINATED" \in events
    /\ "application_terminate" \in registered /\ ProgressThreadFree
    /\ events' = events \ {"APPLICATION_TERMINATED"}
    /\ \E info \in TermInfos(app_rc) :
          LET s == terminate_scan(info, 1, "The application exited with return code ",
                                  [code |-> app_exit_code, state |-> MPIR_debug_state,
                                   str |-> MPIR_debug_abort_string])
          IN /\ app_exit_code' = s.code
             /\ MPIR_debug_state' = s.state
             /\ MPIR_debug_abort_string' = s.str
    /\ \E cb \in Continuations : hist' = [hist EXCEPT !.cbfunc = cb]
    /\ h_pc' = [h_pc EXCEPT !["application_terminate"] = "mark"]
    /\ UNCHANGED <<drvVars, optVars, cntVars, app_terminated, launcher_terminated, launcher_exit_code, regVars, procVars,
                   latchVars, tableVars, h_ref, exitVars, libVars, launcher,
                   launcher_rc, app, app_rc, n_lost>>

(* app_terminated = 1; launcher_terminated = 2; *)
application_terminate_mark ==
    /\ Running /\ h_pc["application_terminate"] = "mark"
    /\ app_terminated' = 1
    /\ launcher_terminated' = 2
    /\ h_pc' = [h_pc EXCEPT !["application_terminate"] = "post"]
    /\ hist' = hist
    /\ UNCHANGED <<drvVars, optVars, cntVars, app_exit_code, launcher_exit_code,
                   regVars, procVars, latchVars, mpirVars, tableVars, h_ref,
                   exitVars, libVars, envVars>>

(* post_condition(&launch_term_cond); release_conditions(); cbfunc(...); *)
(* the handler returns.                                                  *)
application_terminate_post ==
    /\ Running /\ h_pc["application_terminate"] = "post"
    /\ ~mutex["launch_term"]
    /\ flag' = release_conditions(post_condition("launch_term", flag))
    /\ pc' = Broadcast({"launch_term"} \cup released(flag), pc)
    /\ hist' = handler_returns(hist.cbfunc,
                                [hist EXCEPT !.posted = @ \cup {"launch_term"} \cup released(flag)])
    /\ h_pc' = [h_pc EXCEPT !["application_terminate"] = "idle"]
    /\ UNCHANGED <<wait_cond, wait_ret, reg, retval, proc_info, i, optVars, cntVars,
                   termVars, regVars, procVars, mutex, mpirVars, tableVars, h_ref,
                   exitVars, libVars, envVars>>

(* ------------------------------------------------------------------ *)
(* The launcher and the application, as the PMIx server reports them   *)
(* ------------------------------------------------------------------ *)
(* The released launcher starts the application, whose processes stop in *)
(* PMIx_Init; the server emits LAUNCH_COMPLETE.                          *)
launcher_launches_application ==
    /\ Running /\ launcher = "released"
    /\ launcher' = "running"
    /\ app' = "held"
    /\ events' = events \cup {"LAUNCH_COMPLETE"}
    /\ UNCHANGED <<drvVars, optVars, cntVars, termVars, regVars, procVars, latchVars,
                   mpirVars, tableVars, hVars, exitVars, libVars,
                   launcher_rc, app_rc, n_lost, hist>>

(* The launcher reports the application ready for the debugger. *)
launcher_reports_ready ==
    /\ Running /\ launcher = "running"
    /\ launcher' = "ready"
    /\ events' = events \cup {"READY_FOR_DEBUG"}
    /\ UNCHANGED <<drvVars, optVars, cntVars, termVars, regVars, procVars, latchVars,
                   mpirVars, tableVars, hVars, exitVars, libVars,
                   launcher_rc, app, app_rc, n_lost, hist>>

(* The launcher process ends, at any point of its life, with any code. *)
launcher_exits ==
    /\ Running /\ launcher \in {"held", "released", "running", "ready"}
    /\ launcher' = "dead"
    /\ \E c \in ExitCodes :
          /\ launcher_rc' = c
          /\ hist' = [hist EXCEPT !.early_death = (launcher # "ready" /\ c # 0)]
    /\ events' = events \cup {"LAUNCHER_TERMINATED"}
    /\ UNCHANGED <<drvVars, optVars, cntVars, termVars, regVars, procVars, latchVars,
                   mpirVars, tableVars, hVars, exitVars, libVars,
                   app, app_rc, n_lost>>

(* The application ends, with any code. *)
application_exits ==
    /\ Running /\ app \in {"held", "running"}
    /\ app' = "dead"
    /\ \E c \in ExitCodes : app_rc' = c
    /\ events' = events \cup {"APPLICATION_TERMINATED"}
    /\ UNCHANGED <<drvVars, optVars, cntVars, termVars, regVars, procVars, latchVars,
                   mpirVars, tableVars, hVars, exitVars, libVars,
                   launcher, launcher_rc, n_lost, hist>>

(* ------------------------------------------------------------------ *)
(* The program                                                         *)
(* ------------------------------------------------------------------ *)
Driver ==
    \/ process_options
    \/ setup_signal_handlers
    \/ install_exit_handler
    \/ initialize_as_tool
    \/ query_launcher_namespace
    \/ initialize_as_tool_count
    \/ register_handler
    \/ register_handler_status
    \/ register_handler_id
    \/ wait_for_condition_test
    \/ wait_for_condition_block
    \/ spawn_launcher_and_application
    \/ connect_to_server
    \/ release_launcher
    \/ release_application
    \/ query_application_namespace
    \/ pmix_proc_table_to_mpir_query
    \/ pmix_proc_table_to_mpir_malloc
    \/ pmix_proc_table_to_mpir_store
    \/ pmix_proc_table_to_mpir_state
    \/ MPIR_Breakpoint
    \/ shim_finalize
    \/ shim_finalize_count
    \/ shim_return
    \/ main_exit

ProgressThread ==
    \/ registration_complete_handler
    \/ registration_complete_id
    \/ registration_complete_post
    \/ launcher_ready_handler
    \/ launcher_ready_post
    \/ launcher_complete_handler
    \/ launcher_complete_post
    \/ launcher_terminate_handler
    \/ launcher_terminate_mark
    \/ launcher_terminate_post
    \/ application_terminate_handler
    \/ application_terminate_mark
    \/ application_terminate_post

Jobs ==
    \/ launcher_launches_application
    \/ launcher_reports_ready
    \/ launcher_exits
    \/ application_exits

(* What may happen at any time, or never. *)
Faults ==
    \/ signal_handler
    \/ default_event_handler
    \/ spurious_wakeup

Next == Driver \/ ProgressThread \/ Jobs \/ Faults

Spec == Init /\ [][Next]_vars

(* ------------------------------------------------------------------ *)
(* The conversion of the proctable on its own                          *)
(* ------------------------------------------------------------------ *)
(* An attach run that has registered the default handler and found the *)
(* application's namespace: pmix_proc_table_to_mpir is about to query. *)
TableInit ==
    /\ pc = "proctable_query"
    /\ wait_cond = "registration"
    /\ wait_ret = "register_status"
    /\ reg = "default"
    /\ retval = STATUS_OK
    /\ proc_info = <<>>
    /\ i = 0
    /\ mpir_mode = "ATTACH"
    /\ connect_pid = 1
    /\ pmix_initialized = 1
    /\ session_count = 1
    /\ app_terminated = 0
    /\ app_exit_code = 0
    /\ launcher_terminated = 0
    /\ launcher_exit_code = 0
    /\ callback_reg_id = 0
    /\ callback_reg_status = PMIX_SUCCESS
    /\ cb_id = [h \in Handlers |-> IF h = "default" THEN 0 ELSE NO_CB_ID]
    /\ launcher_proc = "launcher"
    /\ application_proc = "app"
    /\ flag = [l \in Latches |-> 1]
    /\ mutex = [l \in Latches |-> FALSE]
    /\ MPIR_debug_state = MPIR_NULL
    /\ MPIR_debug_abort_string = NullString
    /\ MPIR_proctable = NullTable
    /\ MPIR_proctable_size = 0
    /\ h_pc = [t \in Callbacks |-> "idle"]
    /\ h_ref = 0
    /\ exited = FALSE
    /\ exit_status = 0
    /\ signals_installed = TRUE
    /\ atexit_installed = TRUE
    /\ tool_inits = 1
    /\ tool_finalizes = 0
    /\ reg_queue = <<>>
    /\ registered = {"default"}
    /\ next_ref = 1
    /\ launcher = "none"
    /\ launcher_rc = 0
    /\ app = "none"
    /\ app_rc = 0
    /\ events = {}
    /\ n_lost = 0
    /\ hist = HistInit

(* pmix_proc_table_to_mpir against a server that may answer with any *)
(* response the code accepts.                                        *)
TableNext ==
    \/ proc_table_query(Responses)
    \/ pmix_proc_table_to_mpir_malloc
    \/ pmix_proc_table_to_mpir_store
    \/ pmix_proc_table_to_mpir_state
    \/ MPIR_Breakpoint
    \/ signal_handler

TableSpec == TableInit /\ [][TableNext]_vars

(* ------------------------------------------------------------------ *)
(* process_options on its own                                          *)
(* ------------------------------------------------------------------ *)
(* MPIR_Shim_common is entered with arguments the caller has fixed. *)
OptionsInit ==
    \E mode_ \in Modes, pid_ \in Pids, argv0 \in Argv0s :
        Entry([HistInit EXCEPT !.req = <<mode_, pid_, argv0>>])

OptionsNext ==
    /\ Len(hist.req) = 3
    /\ process_options_call(hist.req[1], hist.req[2], hist.req[3])

OptionsSpec == OptionsInit /\ [][OptionsNext]_vars

(* ------------------------------------------------------------------ *)
(* default_event_handler with its events kept                          *)
(* ------------------------------------------------------------------ *)
(* The driver and its registrations while the launcher it spawned makes *)
(* no progress and no signal arrives: an attach run goes through to its *)
(* end, a launch run as far as its wait for READY_FOR_DEBUG.  The       *)
(* events given to default_event_handler are kept in the history.       *)
DefaultNext ==
    \/ process_options
    \/ setup_signal_handlers
    \/ install_exit_handler
    \/ initialize_as_tool
    \/ query_launcher_namespace
    \/ initialize_as_tool_count
    \/ register_handler
    \/ register_handler_status
    \/ register_handler_id
    \/ wait_for_condition_test
    \/ wait_for_condition_block
    \/ spurious_wakeup
    \/ spawn_launcher_and_application
    \/ connect_to_server
    \/ release_launcher
    \/ query_application_namespace
    \/ pmix_proc_table_to_mpir_query
    \/ pmix_proc_table_to_mpir_malloc
    \/ pmix_proc_table_to_mpir_store
    \/ pmix_proc_table_to_mpir_state
    \/ MPIR_Breakpoint
    \/ shim_finalize
    \/ shim_finalize_count
    \/ shim_return
    \/ main_exit
    \/ registration_complete_handler
    \/ registration_complete_id
    \/ registration_complete_post
    \/ default_event_kept

DefaultSpec == Init /\ [][DefaultNext]_vars

(* ------------------------------------------------------------------ *)
(* launcher_complete_handler on its own                                *)
(* ------------------------------------------------------------------ *)
(* A NONPROXY run that has registered its four handlers, released the   *)
(* launcher and waits for READY_FOR_DEBUG; the launcher has started the *)
(* application and its LAUNCH_COMPLETE event is about to be delivered.  *)
CompleteInit ==
    /\ pc = "wait_blocked"
    /\ wait_cond = "ready_for_debug"
    /\ wait_ret = "proctable_query"
    /\ reg = "launcher_complete"
    /\ retval = STATUS_OK
    /\ proc_info = <<>>
    /\ i = 0
    /\ mpir_mode = "NONPROXY"
    /\ connect_pid = 0
    /\ pmix_initialized = 1
    /\ session_count = 1
    /\ app_terminated = 0
    /\ app_exit_code = 0
    /\ launcher_terminated = 0
    /\ launcher_exit_code = 0
    /\ callback_reg_id = 3
    /\ callback_reg_status = PMIX_SUCCESS
    /\ cb_id = [h \in Handlers |->
                  CASE h = "default" -> 0
                    [] h = "launcher_terminate" -> 1
                    [] h = "launcher_ready" -> 2
                    [] h = "launcher_complete" -> 3
                    [] OTHER -> NO_CB_ID]
    /\ launcher_proc = "launcher"
    /\ application_proc = ""
    /\ flag = [l \in Latches |-> 1]
    /\ mutex = [l \in Latches |-> FALSE]
    /\ MPIR_debug_state = MPIR_NULL
    /\ MPIR_debug_abort_string = NullString
    /\ MPIR_proctable = NullTable
    /\ MPIR_proctable_size = 0
    /\ h_pc = [t \in Callbacks |-> "idle"]
    /\ h_ref = 0
    /\ exited = FALSE
    /\ exit_status = 0
    /\ signals_installed = TRUE
    /\ atexit_installed = TRUE
    /\ tool_inits = 1
    /\ tool_finalizes = 0
    /\ reg_queue = <<>>
    /\ registered = {"default", "launcher_terminate", "launcher_ready",
                     "launcher_complete"}
    /\ next_ref = 4
    /\ launcher = "running"
    /\ launcher_rc = 0
    /\ app = "held"
    /\ app_rc = 0
    /\ events = {"LAUNCH_COMPLETE"}
    /\ n_lost = 0
    /\ hist = HistInit

(* The handler against a server that may send any LAUNCH_COMPLETE event. *)
CompleteNext ==
    \/ launcher_complete_event(AnyCompleteInfos)
    \/ launcher_complete_post

CompleteSpec == CompleteInit /\ [][CompleteNext]_vars

(* ------------------------------------------------------------------ *)
(* Properties                                                          *)
(* ------------------------------------------------------------------ *)
(* C1: debug-state monotonicity.  While the process runs, no step lowers *)
(* MPIR_debug_state: its successive values are a subsequence of NULL,    *)
(* SPAWNED, ABORTING, and ABORTING is never followed by SPAWNED or NULL. *)
DebugStateMonotonic ==
    [][Running' => MPIR_debug_state' >= MPIR_debug_state]_vars

(* C2: launcher death is always a wake-up.  A driver blocked in           *)
(* wait_for_condition after a terminate handler has marked the launcher   *)
(* terminated is never left without a step of the program, of the PMIx    *)
(* progress thread or of the jobs that can still happen: what remains to  *)
(* happen includes the broadcast that wakes it.                           *)
LauncherDeathWakes ==
    (Running /\ pc = "wait_blocked" /\ launcher_terminated # 0)
        => ENABLED (Driver \/ ProgressThread \/ Jobs)

(* C3: latch no-hang.  A wait_for_condition call that starts after the     *)
(* launcher-terminate handler has marked the launcher terminated returns  *)
(* from its first test of the predicate: it never gets to                 *)
(* pthread_cond_wait, on whichever latch it waits.                        *)
LatchNoHang ==
    hist.late_wait => pc \notin {"wait_pre", "wait_blocked", "wait_woken"}

(* Waits that started after the launcher-terminate handler fired have *)
(* returned, on the registration latch and on the launch-term latch.  *)
LatchNoHangWitness ==
    /\ hist.late_wait /\ hist.normal_end
    /\ "application_terminate" \in registered

(* C4: the exit code mirrors the launcher.  When the driver has returned *)
(* through the normal end of the launch sequence, in PROXY and NONPROXY  *)
(* mode the launcher has terminated and the value returned is its exit   *)
(* code; in ATTACH mode the value returned is 0.                         *)
ExitCodeMirrorsLauncher ==
    (pc = "returned" /\ hist.normal_end) =>
        /\ mpir_mode \in {"PROXY", "NONPROXY"} =>
              (launcher = "dead" => retval = launcher_rc)
        /\ mpir_mode = "ATTACH" => retval = 0

(* C5: launcher abort scenario.  In PROXY mode, when the launcher has      *)
(* ended with a non-zero code c before it reported ready for debug, its   *)
(* terminate handler has run and the driver, which had registered its     *)
(* handlers and released the launcher, has returned, then it has returned *)
(* c with MPIR_debug_state ABORTING and the abort string                  *)
(* "The launcher exited with return code c".                              *)
LauncherAbortScenario ==
    (/\ pc = "returned" /\ mpir_mode = "PROXY"
     /\ hist.early_death /\ hist.lterm_fired
     /\ cb_id["launcher_complete"] # NO_CB_ID) =>
        /\ MPIR_debug_state = MPIR_DEBUG_ABORTING
        /\ MPIR_debug_abort_string =
              asprintf("The launcher exited with return code ", launcher_rc)
        /\ retval = launcher_rc

(* C6: breakpoint ordering.  Whenever MPIR_Breakpoint is entered,        *)
(* MPIR_debug_state is not MPIR_NULL and MPIR_proctable is not NULL.     *)
BreakpointOrdering ==
    pc = "MPIR_Breakpoint" =>
        MPIR_debug_state # MPIR_NULL /\ ~MPIR_proctable.null

(* MPIR_Breakpoint is entered with the table stored and the state set, *)
(* by the conversion or by a terminate handler that ran after it.      *)
BreakpointOrderingWitness ==
    /\ pc = "MPIR_Breakpoint"
    /\ MPIR_debug_state = MPIR_DEBUG_ABORTING
    /\ MPIR_proctable_size = MaxProcs

(* C7: proctable shape.  For a response of N records, when the conversion *)
(* is done MPIR_proctable_size is N and for each i below N the entry at   *)
(* index i has been written, with the pid and the strings of the record   *)
(* of the response whose rank is i.                                       *)
ProctableShape ==
    pc = "MPIR_Breakpoint" =>
        LET r == hist.response
            N == Len(r)
        IN /\ MPIR_proctable_size = N
           /\ \A n \in 0..(N - 1) :
                 /\ MPIR_proctable.entries[n].written
                 /\ \A k \in 1..N :
                       r[k].rank = n =>
                          /\ MPIR_proctable.entries[n].pid = r[k].pid
                          /\ MPIR_proctable.entries[n].host_name = r[k].hostname
                          /\ MPIR_proctable.entries[n].executable_name =
                                r[k].executable_name

(* C8: signal safety.  A process ended by the signal handler has status 1 *)
(* and every PMIx_tool_init that succeeded has been followed by a         *)
(* PMIx_tool_finalize.                                                    *)
SignalSafety ==
    (exited /\ hist.ex_by = "signal") =>
        exit_status = 1 /\ tool_finalizes >= tool_inits

(* C9: finalise idempotence.  In every reachable state, 1..MaxCalls calls *)
(* of finalize_as_tool in sequence leave the init count and the number of *)
(* PMIx_tool_finalize calls as one call leaves them, and a call made with *)
(* the init count at zero changes nothing.                                *)
FinalizeIdempotent ==
    /\ \A k \in 1..MaxCalls :
          finalize_as_tool_times(k, Tool) = finalize_as_tool(Tool)
    /\ ~(0 < Tool.cnt) => finalize_as_tool(Tool) = Tool

(* The signal handler and then the atexit handler called finalize_as_tool *)
(* on an initialised session: PMIx_tool_finalize was called once.         *)
FinalizeIdempotentWitness ==
    /\ exited /\ hist.ex_by = "signal"
    /\ tool_inits = 1 /\ tool_finalizes = 1

(* C10: registrations are strictly serialised.  At most one registration *)
(* is in flight, and the driver reads the status and id slots only when  *)
(* the callback of the registration it issued has been delivered and has *)
(* returned.                                                             *)
RegistrationsSerialised ==
    /\ Len(reg_queue) <= 1
    /\ pc \in {"register_status", "register_id"} =>
          reg_queue = <<>> /\ h_pc["registration_complete"] = "idle"


NonProxySessionCount ==
    (Running /\ mpir_mode = "NONPROXY" /\ n_lost = 0) =>
        /\ session_count <= 2
        /\ (tool_inits = 1 /\ launcher = "none") => session_count = 1
        /\ launcher # "none" => session_count = 2


(* C13: lost connection in a callback.  LOST_CONNECTION_TO_SERVER with   *)
(* session_count 1 takes the default handler to _exit, and the step that *)
(* ends the process through _exit leaves status 1 and all four latches   *)
(* released, calls no PMIx_tool_finalize and runs no exit_handler, which *)
(* is where the proctable is freed.                                      *)
LostConnectionExit ==
    /\ default_event_branch("PMIX_ERR_LOST_CONNECTION_TO_SERVER", 1) = "_exit"
    /\ [][(Running /\ hist'.ex_by = "_exit") =>
             /\ exited' /\ exit_status' = 1
             /\ hist'.exit_latches = Latches
             /\ ~hist'.atexit_ran
             /\ tool_finalizes' = tool_finalizes]_vars

(* The default handler ended a run whose session was initialised and whose *)
(* exit handler was installed: no PMIx_tool_finalize was called.           *)
LostConnectionExitWitness ==
    /\ exited /\ hist.ex_by = "_exit" /\ exit_status = 1
    /\ hist.exit_latches = Latches
    /\ tool_inits = 1 /\ tool_finalizes = 0


(* C14: invalid attach.  A run asked to attach to a pid <= 0 returns      *)
(* STATUS_FAIL from process_options: the driver takes no further step, so *)
(* PMIx_tool_init, the registrations, the spawn, the queries, the         *)
(* notifications and PMIx_tool_finalize are never called, and neither the *)
(* signal handlers nor the exit handler are installed.                    *)
InvalidAttach ==
    hist.bad_attach =>
        /\ pc \in {"returned", "exited"}
        /\ Running => retval = STATUS_FAIL
        /\ tool_inits = 0 /\ tool_finalizes = 0
        /\ reg_queue = <<>> /\ registered = {} /\ next_ref = 0
        /\ launcher = "none" /\ app = "none"
        /\ hist.response = <<>>
        /\ ~signals_installed /\ ~atexit_installed /\ ~hist.atexit_ran

(* The run was asked to attach to a pid <= 0 and has returned. *)
InvalidAttachWitness ==
    /\ hist.bad_attach /\ pc = "returned" /\ retval = STATUS_FAIL
    /\ mpir_mode = "DYNAMIC" /\ connect_pid = 0


(* C15: mode resolution.  When the requested mode is DYNAMIC, the mode in *)
(* effect after process_options is NONPROXY when the part of argv[0]      *)
(* after its last "/" (all of argv[0] when it has none) is "prun", and    *)
(* PROXY for every other argv[0].                                         *)
ModeResolution ==
    (Len(hist.req) = 3 /\ pc # "process_options" /\ hist.req[1] = "DYNAMIC") =>
        LET argv0 == hist.req[3]
            k == CHOOSE n \in 0..Len(argv0) :
                     /\ n = 0 \/ argv0[n] = "/"
                     /\ \A j \in (n + 1)..Len(argv0) : argv0[j] # "/"
            base == SubSeq(argv0, k + 1, Len(argv0))
        IN  mpir_mode = IF base = <<"p","r","u","n">> THEN "NONPROXY" ELSE "PROXY"

(* A DYNAMIC request for b/prun has been resolved to NONPROXY. *)
ModeResolutionWitness ==
    /\ Len(hist.req) = 3 /\ hist.req[1] = "DYNAMIC"
    /\ hist.req[3] = <<"b","/","p","r","u","n">>
    /\ pc = "setup_signal_handlers" /\ mpir_mode = "NONPROXY"


(* C16: fatal errors finalise.  Whenever pmix_fatal_error ends a process  *)
(* whose PMIx_tool_init has succeeded, PMIx_tool_finalize has been called *)
(* by the time the process exits, and the exit status is 1.               *)
FatalErrorsFinalise ==
    [][(Running /\ hist'.ex_by = "fatal" /\ tool_inits > 0) =>
          /\ exited' /\ exit_status' = 1
          /\ tool_finalizes' > 0]_vars


(* C17: PMIx operation failure is cleaned up.  When MPIR_Shim_common has  *)
(* returned STATUS_FAIL from a failed PMIx operation after PMIx_tool_init *)
(* succeeded, the tool has been finalised: PMIx_tool_finalize has been    *)
(* called and pmix_initialized is back to zero.                           *)
OperationFailureCleanedUp ==
    (Running /\ pc = "returned" /\ ~hist.normal_end /\ tool_inits > 0) =>
        /\ retval = STATUS_FAIL
        /\ pmix_initialized = 0
        /\ tool_finalizes = tool_inits


(* C18: proctable materialisation happens after the ready event.  In a   *)
(* launch run (PROXY or NONPROXY) pmix_proc_table_to_mpir starts its     *)
(* query only when READY_FOR_DEBUG has already been delivered to         *)
(* launcher_ready_handler.                                               *)
ProctableAfterReady ==
    [][(Running' /\ mpir_mode # "ATTACH"
          /\ pc = "proctable_query" /\ pc' # "proctable_query")
         => hist.ready_seen]_vars


(* C19: launcher release ordering.  In PROXY and NONPROXY mode the        *)
(* DEBUGGER_RELEASE notification to rank 0 of the launcher is sent only   *)
(* when the registration of launcher_ready_handler has completed (its     *)
(* registration callback has been delivered), and it names the launcher's *)
(* namespace.                                                             *)
LauncherReleaseOrdering ==
    [][(Running' /\ mpir_mode \in {"PROXY", "NONPROXY"}
          /\ pc = "release_launcher" /\ pc' # "release_launcher")
         => /\ \A k \in 1..Len(reg_queue) : reg_queue[k] # "launcher_ready"
            /\ launcher_proc = "launcher"]_vars


(* C20: application release ordering.  The DEBUGGER_RELEASE notification  *)
(* to the rank wildcard of the application's namespace is sent only after *)
(* MPIR_Breakpoint has returned, and at most once in a run.               *)
ApplicationReleaseOrdering ==
    /\ hist.app_releases <= 1
    /\ hist.app_releases > 0 => hist.breakpoints > 0

(* The application was held, MPIR_Breakpoint returned and the release set *)
(* the application running.                                               *)
ApplicationReleaseOrderingWitness ==
    /\ Running /\ hist.app_releases = 1 /\ hist.breakpoints = 1
    /\ app = "running" /\ application_proc = "app"


(* C21: registration order.  A handler registration is issued only after  *)
(* PMIx_tool_init has succeeded; a handler other than the default one is   *)
(* registered only when the default handler's registration has completed;  *)
(* and launcher_ready_handler is registered only when                      *)
(* launcher_terminate_handler has been registered.                         *)
RegistrationOrder ==
    LET issued == registered \cup { reg_queue[k] : k \in 1..Len(reg_queue) }
    IN  Running =>
          /\ issued # {} => tool_inits > 0
          /\ issued \ {"default"} # {} =>
                /\ "default" \in registered
                /\ \A k \in 1..Len(reg_queue) : reg_queue[k] # "default"
          /\ "launcher_ready" \in issued => "launcher_terminate" \in registered

(* The launcher-ready registration is in flight, after the default and the *)
(* launcher-terminate registrations have completed.                        *)
RegistrationOrderWitness ==
    /\ Running /\ reg_queue = <<"launcher_ready">>
    /\ registered = {"default", "launcher_terminate"}
    /\ tool_inits = 1


(* C22: every handler completes the event chain.  No handler that was   *)
(* delivered an event with a non-null continuation ends, by returning or *)
(* by ending the process itself, without having called the continuation  *)
(* exactly once.                                                         *)
ChainCompleted == ~hist.chain_broken


(* C23: proctable written once, freed once.  The proctable is not        *)
(* modified once pmix_proc_table_to_mpir has filled it; and in an         *)
(* execution that ended through exit after a materialisation, there was   *)
(* one materialisation, and exit_handler freed the array once and the     *)
(* strings of each of its entries, every one of them a string that the    *)
(* materialisation had stored.                                            *)
ProctableWrittenFreedOnce ==
    /\ [][(Running' /\ hist.materialisations > 0 /\ pc # "proctable_loop")
             => MPIR_proctable' = MPIR_proctable]_vars
    /\ []((exited /\ hist.ex_by \in {"main", "fatal", "signal"}
             /\ hist.materialisations > 0)
            => /\ hist.materialisations = 1
               /\ hist.atexit_ran
               /\ hist.frees.table = 1
               /\ hist.frees.wild = 0
               /\ hist.frees.strings > 0)


(* C24: proctable invariant.  In every state of a running process either *)
(* MPIR_proctable is NULL and MPIR_proctable_size is 0, or MPIR_proctable *)
(* is non-null and each of its MPIR_proctable_size entries has a non-null *)
(* host_name and a non-null executable_name.                              *)
ProctableInvariant ==
    Running =>
        \/ MPIR_proctable.null /\ MPIR_proctable_size = 0
        \/ /\ ~MPIR_proctable.null
           /\ \A n \in 0..(MPIR_proctable_size - 1) :
                 /\ n \in DOMAIN MPIR_proctable.entries
                 /\ MPIR_proctable.entries[n].host_name # NullString
                 /\ MPIR_proctable.entries[n].executable_name # NullString


(* C25: latch wait semantics.  wait_for_condition returns only from a     *)
(* test, made with the latch's mutex held, that finds the flag cleared or *)
(* launcher_terminated non-zero, whatever woke the waiter; and the        *)
(* returning step leaves the flag set to 1 before the mutex is released,  *)
(* so the post that let this wait through lets no later wait through.     *)
LatchWaitSemantics ==
    [][(Running' /\ pc \in {"wait_enter", "wait_pre", "wait_blocked", "wait_woken"}
          /\ pc' \notin {"wait_enter", "wait_pre", "wait_blocked", "wait_woken"})
         => /\ pc \in {"wait_enter", "wait_woken"} /\ pc' = wait_ret
            /\ ~mutex[wait_cond]
            /\ flag[wait_cond] = 0 \/ launcher_terminated # 0
            /\ flag'[wait_cond] = 1
            /\ ~mutex'[wait_cond]]_vars

(* The wait for READY_FOR_DEBUG was let through by the handler's post, and *)
(* the latch is armed again.                                               *)
LatchWaitSemanticsWitness ==
    /\ Running /\ pc = "proctable_query" /\ mpir_mode # "ATTACH"
    /\ hist.ready_seen /\ launcher_terminated = 0
    /\ flag["ready_for_debug"] = 1


(* C26: no unarmed latch without a post.  A latch whose flag is 0 has been *)
(* posted, by post_condition on that latch or by release_conditions, since *)
(* it was last armed; and a step of the running process that clears a flag *)
(* is such a post.                                                         *)
NoUnarmedLatchWithoutPost ==
    /\ [](\A l \in Latches : flag[l] = 0 => l \in hist.posted)
    /\ [][Running' =>
             \A l \in Latches :
                 (flag[l] = 1 /\ flag'[l] = 0) =>
                     (l \notin hist.posted /\ l \in hist'.posted)]_vars

(* The launcher-terminate handler has posted launch_term and released the *)
(* other three latches: all four flags are 0, all four were posted.       *)
NoUnarmedLatchWithoutPostWitness ==
    /\ Running /\ \A l \in Latches : flag[l] = 0
    /\ hist.posted = Latches /\ hist.lterm_fired


(* C27: launcher-terminated handler steps.  launcher_terminate_handler    *)
(* posts launch_term only after it has set launcher_terminated to 1, and  *)
(* when it returns launcher_terminated is non-zero and all four latches   *)
(* are unarmed; application_terminate_handler does the same after setting *)
(* launcher_terminated to 2 and app_terminated to 1.                      *)
TerminateHandlerSteps ==
    [][Running' =>
         /\ (h_pc["launcher_terminate"] = "post" /\ h_pc'["launcher_terminate"] = "idle")
               => /\ launcher_terminated = 1
                  /\ launcher_terminated' # 0
                  /\ \A l \in Latches : flag'[l] = 0
         /\ (h_pc["application_terminate"] = "post"
               /\ h_pc'["application_terminate"] = "idle")
               => /\ launcher_terminated = 2 /\ app_terminated = 1
                  /\ launcher_terminated' # 0 /\ app_terminated' = 1
                  /\ \A l \in Latches : flag'[l] = 0
         /\ \A h \in {"launcher_terminate", "application_terminate"} :
               (h_pc[h] \in {"idle", "mark"} /\ h_pc'[h] # h_pc[h])
                  => flag' = flag]_vars

(* Both handlers have run, the application's last: every latch is unarmed. *)
TerminateHandlerStepsWitness ==
    /\ Running /\ launcher_terminated = 2 /\ app_terminated = 1
    /\ hist.lterm_fired
    /\ h_pc["application_terminate"] = "idle"
    /\ \A l \in Latches : flag[l] = 0


(* C28: launch-complete handler.  An info[] with no NSPACE entry is what  *)
(* takes launcher_complete_handler to pmix_fatal_error, which ends the    *)
(* process with launch_complete never posted; for an info[] with an       *)
(* NSPACE entry the handler has loaded application_proc with the value of *)
(* the last such entry when it posts launch_complete, and not posted the  *)
(* latch before.  (application_proc is modelled by its namespace; its     *)
(* rank is PMIX_RANK_WILDCARD from entry on.)                             *)
LaunchCompleteHandler ==
    [][LET HasNs(info) == \E k \in 1..Len(info) : info[k].key = "NSPACE"
           LastNs(info) ==
               info[CHOOSE k \in 1..Len(info) :
                       /\ info[k].key = "NSPACE"
                       /\ \A j \in (k + 1)..Len(info) : info[j].key # "NSPACE"].val
       IN  /\ \A info \in AnyCompleteInfos : HasNs(info) <=> last_nspace(info) # ""
           /\ (Running /\ ~Running' /\ hist'.ex_by = "fatal")
                 => "launch_complete" \notin hist.posted
           /\ (Running' /\ h_pc["launcher_complete"] = "idle"
                 /\ h_pc'["launcher_complete"] = "post")
                 => /\ HasNs(hist'.info)
                    /\ application_proc' = LastNs(hist'.info)
                    /\ flag' = flag /\ hist'.posted = hist.posted
           /\ (Running' /\ h_pc["launcher_complete"] = "post"
                 /\ h_pc'["launcher_complete"] = "idle")
                 => /\ application_proc = LastNs(hist.info)
                    /\ "launch_complete" \notin hist.posted
                    /\ "launch_complete" \in hist'.posted
                    /\ flag'["launch_complete"] = 0]_vars

(* An event naming two namespaces, "app" first: the handler kept the last *)
(* and has posted launch_complete.                                        *)
LaunchCompleteHandlerWitness ==
    /\ Running /\ h_pc["launcher_complete"] = "idle"
    /\ hist.info = <<Item("NSPACE", "app"), Item("JOB_SIZE", ""), Item("NSPACE", "other")>>
    /\ application_proc = "other"
    /\ "launch_complete" \in hist.posted


(* C29: default handler session accounting.  LOST_CONNECTION_TO_SERVER    *)
(* given to default_event_handler while session_count is not 1 lowers     *)
(* session_count by exactly one and the process goes on; any other event  *)
(* leaves session_count and the four latches as they were.                *)
DefaultSessionAccounting ==
    [][LET lost == "PMIX_ERR_LOST_CONNECTION_TO_SERVER"
       IN  /\ \A c \in (-1)..2 :
                 /\ c # 1 => default_event_branch(lost, c) = "decrement"
                 /\ default_event_branch("PMIX_EVENT_OTHER", c) = "cbfunc"
           /\ n_lost' # n_lost =>
                 /\ hist'.event = lost /\ session_count # 1
                 /\ session_count' = session_count - 1
                 /\ Running' /\ pc' = pc /\ flag' = flag
           /\ (Running /\ hist'.event = "PMIX_EVENT_OTHER" /\ hist.event # hist'.event)
                 => /\ session_count' = session_count
                    /\ flag' = flag /\ mutex' = mutex
                    /\ Running' /\ pc' = pc]_vars

(* A PROXY run lost a connection before connect_to_server: the count went *)
(* from 0 to -1 and the run goes on.                                      *)
DefaultSessionAccountingWitness ==
    /\ Running /\ hist.event = "PMIX_ERR_LOST_CONNECTION_TO_SERVER"
    /\ n_lost = 1 /\ session_count = -1 /\ mpir_mode = "PROXY"


(* C30: finalise decrements on success only.  finalize_as_tool calls     *)
(* PMIx_tool_finalize only when pmix_initialized is positive, and lowers  *)
(* pmix_initialized only when that call returned PMIX_SUCCESS: after a    *)
(* failed PMIx_tool_finalize the count is what it was.                    *)
FinaliseOnSuccessOnly ==
    [][Running' =>
         /\ tool_finalizes' # tool_finalizes => 0 < pmix_initialized
         /\ pmix_initialized' < pmix_initialized => hist.fin_rc = PMIX_SUCCESS]_vars



(* C31: attach sequence.  A run attaching to a pid > 0 spawns no launcher,  *)
(* sends no DEBUGGER_RELEASE notification, issues no registration but the   *)
(* default handler's and waits on no latch but the registration latch; and  *)
(* when it has returned through the end of the sequence it has queried the  *)
(* application's namespace, built the proctable in one materialisation,     *)
(* called MPIR_Breakpoint once, finalised the tool and returned 0.          *)
AttachSequence ==
    (Running /\ mpir_mode = "ATTACH") =>
        /\ connect_pid > 0
        /\ launcher = "none" /\ app = "none"
        /\ pc \notin {"spawn", "connect_to_server", "release_launcher",
                      "release_application"}
        /\ hist.app_releases = 0
        /\ registered \subseteq {"default"}
        /\ \A k \in 1..Len(reg_queue) : reg_queue[k] = "default"
        /\ wait_cond = "registration"
        /\ (pc = "returned" /\ hist.normal_end) =>
               /\ application_proc = "app"
               /\ hist.materialisations = 1 /\ ~MPIR_proctable.null
               /\ MPIR_debug_state = MPIR_DEBUG_SPAWNED
               /\ hist.breakpoints = 1
               /\ tool_finalizes = 1 /\ pmix_initialized = 0
               /\ retval = 0

(* An attach run has returned 0 through the end of its sequence. *)
AttachSequenceWitness ==
    /\ Running /\ mpir_mode = "ATTACH" /\ connect_pid = 1
    /\ pc = "returned" /\ hist.normal_end /\ retval = 0
    /\ hist.breakpoints = 1 /\ tool_finalizes = 1
    /\ MPIR_proctable_size = MaxProcs



(* C32: the registration status is not clobbered.  When the completion     *)
(* callback of the registration the driver is in has reported success, the *)
(* driver's test of callback_reg_status does not take the failure return;  *)
(* and while a registration is in flight (issued, and its status not yet   *)
(* read by the driver) only registration_complete_handler writes           *)
(* callback_reg_status.                                                    *)
RegistrationStatusKept ==
    [][LET in_flight ==
               \/ reg_queue # <<>>
               \/ pc = "register_status"
               \/ /\ pc \in {"wait_enter", "wait_pre", "wait_blocked", "wait_woken"}
                  /\ wait_cond = "registration"
       IN  /\ (pc = "register_status" /\ reg \in registered) => pc' # "returned"
           /\ (Running' /\ in_flight /\ callback_reg_status' # callback_reg_status)
                 => h_pc'["registration_complete"] = "id"]_vars



(* C33: the application's identity is known before the proctable query.   *)
(* In a launch run (PROXY or NONPROXY) the driver issues the              *)
(* QUERY_PROC_TABLE query only when application_proc holds a namespace,   *)
(* which launcher_complete_handler stored from a LAUNCH_COMPLETE event.   *)
ApplicationKnownBeforeQuery ==
    [][(Running' /\ mpir_mode \in {"PROXY", "NONPROXY"}
          /\ pc = "proctable_query" /\ pc' # "proctable_query")
         => application_proc # ""]_vars



(* C34: no LAUNCH_COMPLETE event is missed.  In a launch run the driver   *)
(* sends the launcher its DEBUGGER_RELEASE only when the registration of  *)
(* launcher_complete_handler has completed, and a LAUNCH_COMPLETE event   *)
(* is never pending while launcher_complete_handler is not registered.    *)
LaunchCompleteNotMissed ==
    /\ [][(Running' /\ mpir_mode \in {"PROXY", "NONPROXY"}
              /\ pc = "release_launcher" /\ pc' # "release_launcher")
             => "launcher_complete" \in registered]_vars
    /\ []((Running /\ "LAUNCH_COMPLETE" \in events)
             => "launcher_complete" \in registered)



(* C35: the requested mode is honoured.  When process_options has returned *)
(* for a request of PROXY, NONPROXY or ATTACH with a pid > 0, mpir_mode is *)
(* the requested mode, and it is not DYNAMIC after any accepted request;   *)
(* so that initialize_as_tool takes its PROXY branch (DO_NOT_CONNECT and   *)
(* LAUNCHER, session_count left alone) for a requested PROXY run, and      *)
(* spawn_launcher_and_application loads launcher_proc from the spawn       *)
(* result for a requested NONPROXY run.                                    *)
RequestedModeHonoured ==
    (Len(hist.req) = 3 /\ pc # "process_options") =>
        LET mode_ == hist.req[1]
            pid_ == hist.req[2]
        IN  /\ (mode_ \in {"PROXY", "NONPROXY"} \/ (mode_ = "ATTACH" /\ pid_ > 0))
                  => mpir_mode = mode_
            /\ pc # "returned" => mpir_mode # "DYNAMIC"
            /\ mode_ = "PROXY" =>
                  init_session_count(mpir_mode, session_count) = session_count
            /\ mode_ = "NONPROXY" => spawn_launcher_proc(mpir_mode) = "launcher"



(* C36: at most one underlying finalise per init.  Whatever the           *)
(* interleaving of the driver, the signal handler, pmix_fatal_error and   *)
(* the atexit handler, PMIx_tool_finalize has been called at most once    *)
(* for each PMIx_tool_init that succeeded.                                *)
OneFinalisePerInit == tool_finalizes <= tool_inits



(* C37: the exit handler frees only populated entries.  Whenever          *)
(* exit_handler has run with MPIR_proctable non-null, whatever called     *)
(* exit, each of the MPIR_proctable_size entries whose strings it gave to *)
(* free had been written by pmix_proc_table_to_mpir.                      *)
ExitFreesPopulatedOnly ==
    (exited /\ hist.atexit_ran /\ hist.frees.table > 0) => hist.frees.wild = 0



(* C38: proctable writes stay in bounds.  For every response the shim     *)
(* accepts, each store of the conversion goes to an index rank with       *)
(* 0 <= rank < MPIR_proctable_size, and when the loop is done every index *)
(* below the size has been written.                                       *)
ProctableWritesInBounds ==
    /\ ~hist.wild_write
    /\ (pc = "proctable_loop" /\ i < MPIR_proctable_size) =>
          (0 <= proc_info[i + 1].rank /\ proc_info[i + 1].rank < MPIR_proctable_size)
    /\ pc = "MPIR_Breakpoint" =>
          \A n \in 0..(MPIR_proctable_size - 1) : MPIR_proctable.entries[n].written



(* C39: the session count stays in range.  In every state of a running  *)
(* process, in every mode and after any LOST_CONNECTION_TO_SERVER events *)
(* given to default_event_handler, 0 <= session_count <= 2.              *)
SessionCountInRange ==
    Running => (0 <= session_count /\ session_count <= 2)



(* C40: recorded handler ids belong to their own registration.  The id   *)
(* MPIR_Shim_common has stored for a handler is the handler_ref that the *)
(* completion callback of that handler's own registration was given,     *)
(* never an id left in callback_reg_id by an earlier registration.       *)
HandlerIdsOwn ==
    Running =>
        \A h \in Handlers : cb_id[h] # NO_CB_ID => cb_id[h] = hist.ids[h]

====
